---- MODULE Spec2Model ----
(***************************************************************************)
(* Model of the meganote back end: the Express handlers of the auth, user, *)
(* account and note controllers over the two MongoDB collections (users,   *)
(* notes), the ticket counter of the mongoose-sequence plugin, the mail    *)
(* transporter and the wall clock.                                         *)
(*                                                                         *)
(* Every handler is an async function: it runs alone up to each await of a *)
(* database call, and other requests may run between two awaits.  One      *)
(* action of the model is one database call of a handler together with the *)
(* synchronous code around it; the first action of a handler also draws    *)
(* the request's inputs and performs its validation.                       *)
(***************************************************************************)
EXTENDS Integers, Sequences, FiniteSets, TLC

VARIABLES users, notes, counter, outbox, now, secrets, procs

vars == <<users, notes, counter, outbox, now, secrets, procs>>

(***************************************************************************)
(* Bounds of the model.                                                    *)
(***************************************************************************)
MaxUsers == 2
MaxNotes == 3
MaxSecrets == 2
MaxTicks == 4
TickMinutes == 30

(***************************************************************************)
(* Program constants.                                                      *)
(***************************************************************************)
Null == 0
StartSeq == 500
ResetHorizonMinutes == 60
DefaultStatusCode == 200

BAD_REQUEST == 400
CONFLICT == 409
CREATED == 201
OK == 200
INTERNAL_SERVER_ERROR == 500

Procs == {"r1", "r2"}

(***************************************************************************)
(* Strings are sequences of characters, so that the case-insensitive       *)
(* comparison of a collation of strength 2 is computed, not assumed.       *)
(* The empty string is JavaScript's falsy "missing" value.                 *)
(***************************************************************************)
Missing == <<>>

ToLower(c) ==
    CASE c = "A" -> "a"
      [] c = "B" -> "b"
      [] c = "F" -> "f"
      [] c = "D" -> "d"
      [] c = "N" -> "n"
      [] OTHER -> c

\* Mutant of CollationEq: a comparison without the collation (exact match).
CollationEqExact(s, t) == s = t

\* .collation({ locale: "en", strength: 2 }): equality ignoring letter case.
CollationEq(s, t) ==
    /\ Len(s) = Len(t)
    /\ \A i \in 1..Len(s) : ToLower(s[i]) = ToLower(t[i])

\* A null passwordResetToken, and a token that a request does not carry.
NoToken == <<>>

\* crypto.randomBytes(32).toString("hex"): the n-th secret drawn.
RawSecret(n) == <<"raw", n>>

\* crypto.createHash("sha256").update(x).digest("hex")
Sha256(x) == <<"sha256", x>>

\* bcrypt.hash(password, 10): a one-way value, never the plain text itself.
BcryptHash(password) == <<"bcrypt", password>>

\* The default values of userSchema.
DefaultAvatarUrl == <<"i">>

NewUser(username, fullname, email, password, role, createdAt) ==
    [ username |-> username, fullname |-> fullname, email |-> email,
      password |-> password, avatarUrl |-> DefaultAvatarUrl,
      role |-> IF role = Missing THEN <<"E">> ELSE role,
      active |-> TRUE, isDeleted |-> FALSE, deletedAt |-> Null,
      passwordResetToken |-> NoToken, passwordResetAt |-> Null,
      createdAt |-> createdAt ]

(***************************************************************************)
(* A connection: the request it is serving or served last (the handler,    *)
(* its inputs and locals, its position) and the response it received.      *)
(***************************************************************************)
\* A JSON web token: the key it was signed with, its expiry, its payload.
NoAccessToken ==
    [ key |-> "", exp |-> Null,
      UserInfo |-> [ username |-> Missing, role |-> Missing, _id |-> Null ] ]

\* The Authorization header: "<scheme> <token>", or no header at all.
NoHeader == [ scheme |-> "", token |-> NoAccessToken ]

\* docs and paths: the ids of the documents in the body, in the order of the
\* body, and the fields that every one of them carries.
NoResponse ==
    [ status |-> Null, msg |-> "", isError |-> FALSE, id |-> Null,
      docs |-> <<>>, paths |-> {}, count |-> 0, totalPage |-> 0,
      accessToken |-> NoAccessToken ]

Idle ==
    [ pc |-> "idle", op |-> "", id |-> Null, user |-> Null,
      username |-> Missing, fullname |-> Missing, email |-> Missing,
      password |-> Missing, role |-> Missing, avatarUrl |-> Missing,
      title |-> Missing, text |-> Missing, status |-> Missing,
      token |-> NoToken, secret |-> NoToken, date |-> Null, ticket |-> Null,
      dirty |-> {},
      active |-> FALSE, hash |-> NoToken,
      query |-> [ page |-> 0, limit |-> 0 ],
      page |-> 0, limit |-> 0, term |-> Missing, activeQuery |-> "",
      termUsers |-> {}, found |-> <<>>, count |-> 0,
      auth |-> NoHeader, reqUser |-> Missing, reqRoles |-> Missing,
      resp |-> NoResponse ]

\* The route handler is entered: verifyJWT called next(), or the request is
\* followed from the handler on.
Enters(p) == procs[p].pc \in {"idle", "next"}

\* The handler goes on to its next await.
Await(p, r, pc) == procs' = [procs EXCEPT ![p] = [r EXCEPT !.pc = pc]]

\* res.status(status).json({ message }) and the handler's return.
Reply(p, r, status, msg, id) ==
    procs' = [procs EXCEPT ![p] = [r EXCEPT !.pc = "idle", !.resp =
                 [NoResponse EXCEPT !.status = status, !.msg = msg, !.id = id]]]

\* Mutant of ErrorHandlerStatus: the status the comment of errorHandler intends.
ErrorHandlerStatusAlways500(statusCode) == 500

\* errorHandler: const status = res.statusCode ? res.statusCode : 500
ErrorHandlerStatus(statusCode) ==
    IF statusCode # 0 THEN statusCode ELSE 500

\* An exception the handler does not catch: express-async-errors passes it
\* to errorHandler, which answers with { message, isError: true }.
Throw(p, r, msg) ==
    procs' = [procs EXCEPT ![p] = [r EXCEPT !.pc = "idle", !.resp =
                 [NoResponse EXCEPT !.status = ErrorHandlerStatus(DefaultStatusCode),
                                    !.msg = msg, !.isError = TRUE]]]

Init ==
    /\ users = <<>>
    /\ notes = <<>>
    /\ counter = StartSeq - 1
    /\ outbox = {}
    /\ now = TickMinutes
    /\ secrets = 0
    /\ procs = [p \in Procs |-> Idle]

UserIds == DOMAIN users
NoteIds == DOMAIN notes

\* User.findOne({ username }).collation({ locale: "en", strength: 2 })
UsersByUsername(username) ==
    {i \in UserIds : CollationEq(users[i].username, username)}

\* User.findOne({ email })
UsersByEmail(email) == {i \in UserIds : users[i].email = email}

(***************************************************************************)
(* register (POST /auth/register) and createUser (POST /users): the same   *)
(* three database calls.                                                   *)
(***************************************************************************)
SignupRequest(op, username, fullname, email, password) ==
    [Idle EXCEPT !.op = op, !.username = username, !.fullname = fullname,
                 !.email = email, !.password = password]

\* Validation of the body and the first await: the username lookup.
SignupCheckUsername(p, r) ==
    /\ Enters(p)
    /\ UNCHANGED <<users, notes, counter, outbox, now, secrets>>
    /\ IF r.username = Missing \/ r.fullname = Missing \/ r.email = Missing
          \/ r.password = Missing
       THEN Reply(p, r, BAD_REQUEST, "Missing required data!", Null)
       ELSE IF UsersByUsername(r.username) # {}
       THEN Reply(p, r, CONFLICT, "This username already exists!", Null)
       ELSE Await(p, r, "checkEmail")

\* The second await: the email lookup.
SignupCheckEmail(p, op) ==
    /\ procs[p].pc = "checkEmail"
    /\ procs[p].op = op
    /\ UNCHANGED <<users, notes, counter, outbox, now, secrets>>
    /\ IF UsersByEmail(procs[p].email) # {}
       THEN Reply(p, procs[p], CONFLICT, "This email has already been used!", Null)
       ELSE Await(p, procs[p], "create")

\* bcrypt.hash and User.create(userObject).
SignupCreate(p, op) ==
    /\ procs[p].pc = "create"
    /\ procs[p].op = op
    /\ Len(users) < MaxUsers
    /\ users' = Append(users, NewUser(procs[p].username, procs[p].fullname, procs[p].email,
                                      BcryptHash(procs[p].password), procs[p].role, now))
    /\ Reply(p, procs[p], CREATED, "created", Len(users) + 1)
    /\ UNCHANGED <<notes, counter, outbox, now, secrets>>

register(p, username, fullname, email, password) ==
    SignupCheckUsername(p, SignupRequest("register", username, fullname, email, password))

registerCheckEmail(p) == SignupCheckEmail(p, "register")

registerCreate(p) == SignupCreate(p, "register")

createUser(p, username, fullname, email, password) ==
    SignupCheckUsername(p, SignupRequest("createUser", username, fullname, email, password))

createUserCheckEmail(p) == SignupCheckEmail(p, "createUser")

createUserCreate(p) == SignupCreate(p, "createUser")

(***************************************************************************)
(* The notes collection.                                                   *)
(***************************************************************************)
\* The default values of noteSchema; ticket is the plugin's inc_field.
NewNote(user, title, text, status, ticket, createdAt) ==
    [ user |-> user, title |-> title, text |-> text, status |-> status,
      isDeleted |-> FALSE, ticket |-> ticket, createdAt |-> createdAt ]

Min(S) == CHOOSE x \in S : \A y \in S : x <= y

\* findOne: the first matching document in insertion order, or null.
FindOne(S) == IF S = {} THEN Null ELSE Min(S)

\* Mutant of NotesByTitle: the lookup without the collation.
NotesByTitleExact(title) == {i \in NoteIds : notes[i].title = title}

\* Note.findOne({ title }).collation({ locale: "en", strength: 2 })
NotesByTitle(title) == {i \in NoteIds : CollationEq(notes[i].title, title)}

\* Mutant of AssignedNotes: the lookup without the isDeleted condition.
AssignedNotesAnyState(id) == {i \in NoteIds : notes[i].user = id}

\* Note.findOne({ user: id, isDeleted: false })
AssignedNotes(id) == {i \in NoteIds : notes[i].user = id /\ ~notes[i].isDeleted}

NoteRequest(op, id, user, title, text, status) ==
    [Idle EXCEPT !.op = op, !.id = id, !.user = user, !.title = title,
                 !.text = text, !.status = status]

\* Mutant of NextTicket: a ticket computed from the number of stored notes.
NextTicketFromCount(seq) == StartSeq + Len(notes)

\* Mutant of NextTicket: a ticket computed from the number of non-deleted notes.
NextTicketOfLiveNotes(seq) ==
    StartSeq + Cardinality({i \in NoteIds : ~notes[i].isDeleted})

\* mongoose-sequence: findOneAndUpdate(counter, { $inc: { seq: 1 } }, { new: true })
NextTicket(seq) == seq + 1

\* createNote (POST /notes): validation and the title lookup.
createNote(p, user, title, text, status) ==
    LET r == NoteRequest("createNote", Null, user, title, text, status) IN
    /\ Enters(p)
    /\ UNCHANGED <<users, notes, counter, outbox, now, secrets>>
    /\ IF user = Null \/ title = Missing \/ text = Missing \/ status = Missing
       THEN Reply(p, r, BAD_REQUEST, "Missing required data", Null)
       ELSE IF FindOne(NotesByTitle(title)) # Null
       THEN Reply(p, r, CONFLICT, "This note title has already been used!", Null)
       ELSE Await(p, r, "ticket")

\* Note.create, the plugin's pre-save hook: the atomic increment of the counter.
createNoteTicket(p) ==
    /\ procs[p].pc = "ticket"
    /\ procs[p].op = "createNote"
    /\ counter < StartSeq - 1 + MaxNotes
    /\ counter' = NextTicket(counter)
    /\ procs' = [procs EXCEPT ![p].pc = "insert", ![p].ticket = NextTicket(counter),
                              ![p].date = now]
    /\ UNCHANGED <<users, notes, outbox, now, secrets>>

\* Note.create: the insert of the document that carries the ticket.
createNoteInsert(p) ==
    /\ procs[p].pc = "insert"
    /\ procs[p].op = "createNote"
    /\ notes' = Append(notes, NewNote(procs[p].user, procs[p].title, procs[p].text,
                                      procs[p].status, procs[p].ticket, procs[p].date))
    /\ Reply(p, procs[p], CREATED, "New note created successfully!", Len(notes) + 1)
    /\ UNCHANGED <<users, counter, outbox, now, secrets>>

\* The paths that the assignments of updateNote mark modified on the document.
ModifiedPaths(doc, r) ==
    {f \in {"user", "title", "text", "status"} : doc[f] # r[f]}

\* updateNote (PATCH /notes/:id): validation and Note.findById(id).
updateNote(p, id, user, title, text, status) ==
    LET r == NoteRequest("updateNote", id, user, title, text, status) IN
    /\ Enters(p)
    /\ UNCHANGED <<users, notes, counter, outbox, now, secrets>>
    /\ IF id = Null \/ user = Null \/ title = Missing \/ text = Missing \/ status = Missing
       THEN Reply(p, r, BAD_REQUEST, "Missing required data", Null)
       ELSE IF id \notin NoteIds
       THEN Reply(p, r, BAD_REQUEST, "Note not found!", Null)
       ELSE Await(p, [r EXCEPT !.dirty = ModifiedPaths(notes[id], r),
                               !.ticket = notes[id].ticket], "checkTitle")

\* updateNote: the title lookup; the note itself may keep its title.
updateNoteCheckTitle(p) ==
    /\ procs[p].pc = "checkTitle"
    /\ procs[p].op = "updateNote"
    /\ UNCHANGED <<users, notes, counter, outbox, now, secrets>>
    /\ IF FindOne(NotesByTitle(procs[p].title)) \notin {Null, procs[p].id}
       THEN Reply(p, procs[p], CONFLICT, "This note title has already been used!", Null)
       ELSE Await(p, procs[p], "save")

\* updateNote: note.save() writes the modified paths of the document.
updateNoteSave(p) ==
    LET r == procs[p] IN
    /\ r.pc = "save"
    /\ r.op = "updateNote"
    /\ notes' = [notes EXCEPT ![r.id] =
                   [f \in DOMAIN notes[r.id] |->
                       IF f \in r.dirty THEN r[f] ELSE notes[r.id][f]]]
    /\ Await(p, r, "notify")
    /\ UNCHANGED <<users, counter, outbox, now, secrets>>

\* sendMail(to, subject, text): the message is handed to the transporter.
Mail(to, link) == [ to |-> to, link |-> link, state |-> "handed over" ]

\* updateNote: User.findById(updatedNote.user) and the notification mail.
updateNoteNotify(p) ==
    LET r == procs[p] IN
    /\ r.pc = "notify"
    /\ r.op = "updateNote"
    /\ UNCHANGED <<users, notes, counter, now, secrets>>
    /\ IF notes[r.id].user \notin UserIds
       THEN /\ Throw(p, r, "TypeError")
            /\ UNCHANGED outbox
       ELSE /\ outbox' = outbox \cup {Mail(users[notes[r.id].user].email, NoToken)}
            /\ Reply(p, r, OK, "updated", r.id)

\* The update document of a findOneAndUpdate, cast by the schema (strict mode):
\* a path that the schema does not declare is dropped, the others are set.
StrictUpdate(doc, update) ==
    [f \in DOMAIN doc |-> IF f \in DOMAIN update THEN update[f] ELSE doc[f]]

\* deleteNote (DELETE /notes/:id): one findOneAndUpdate.
deleteNote(p, id) ==
    LET r == [Idle EXCEPT !.op = "deleteNote", !.id = id] IN
    /\ Enters(p)
    /\ UNCHANGED <<users, counter, outbox, now, secrets>>
    /\ IF id \notin NoteIds
       THEN /\ Reply(p, r, BAD_REQUEST, "Note not found!", Null)
            /\ UNCHANGED notes
       ELSE /\ notes' = [notes EXCEPT ![id] =
                              StrictUpdate(notes[id], [isDeleted |-> TRUE, deletedAt |-> now])]
            /\ Reply(p, r, OK, "deleted", id)

\* Mutant of deleteUser: the account is marked deleted before the lookup.
deleteUserMarksFirst(p, id) ==
    LET r == [Idle EXCEPT !.op = "deleteUser", !.id = id] IN
    /\ Enters(p)
    /\ users' = [i \in UserIds |->
                    IF i = id THEN [users[i] EXCEPT !.isDeleted = TRUE, !.deletedAt = now]
                    ELSE users[i]]
    /\ UNCHANGED <<notes, counter, outbox, now, secrets>>
    /\ IF FindOne(AssignedNotes(id)) # Null
       THEN Reply(p, r, BAD_REQUEST, "Cannot delete users with assigned notes!", Null)
       ELSE Await(p, r, "softDelete")

\* deleteUser (DELETE /users/:id): the lookup of a non-deleted note of the user.
deleteUser(p, id) ==
    LET r == [Idle EXCEPT !.op = "deleteUser", !.id = id] IN
    /\ Enters(p)
    /\ UNCHANGED <<users, notes, counter, outbox, now, secrets>>
    /\ IF FindOne(AssignedNotes(id)) # Null
       THEN Reply(p, r, BAD_REQUEST, "Cannot delete users with assigned notes!", Null)
       ELSE Await(p, r, "softDelete")

\* deleteUser: User.findOneAndUpdate({ _id: id }, { isDeleted: true, deletedAt: date }).
deleteUserWrite(p) ==
    LET r == procs[p] IN
    /\ r.pc = "softDelete"
    /\ r.op = "deleteUser"
    /\ UNCHANGED <<notes, counter, outbox, now, secrets>>
    /\ IF r.id \notin UserIds
       THEN /\ Reply(p, r, BAD_REQUEST, "User not found!", Null)
            /\ UNCHANGED users
       ELSE /\ users' = [users EXCEPT ![r.id].isDeleted = TRUE, ![r.id].deletedAt = now]
            /\ Reply(p, r, OK, "deleted", r.id)

(***************************************************************************)
(* The password reset flow.                                                *)
(***************************************************************************)
\* forgotPassword (POST /auth/forgotpassword): User.findOne({ email }).
forgotPassword(p, email) ==
    LET r == [Idle EXCEPT !.op = "forgotPassword", !.email = email]
        user == FindOne(UsersByEmail(email))
    IN
    /\ procs[p].pc = "idle"
    /\ UNCHANGED <<users, notes, counter, outbox, now, secrets>>
    /\ IF user = Null
       THEN Reply(p, r, BAD_REQUEST, "There is no user with that email address.", Null)
       ELSE Await(p, [r EXCEPT !.user = user, !.email = users[user].email], "issue")

\* The update document { passwordResetToken, passwordResetAt: date }.
IssueTicket(doc, passwordResetToken, date) ==
    [doc EXCEPT !.passwordResetToken = passwordResetToken, !.passwordResetAt = date]

\* forgotPassword: a fresh secret, its hash, and User.findOneAndUpdate by _id.
forgotPasswordIssue(p) ==
    LET r == procs[p]
        resetToken == RawSecret(secrets + 1)
        passwordResetToken == Sha256(resetToken)
    IN
    /\ r.pc = "issue"
    /\ r.op = "forgotPassword"
    /\ secrets < MaxSecrets
    /\ secrets' = secrets + 1
    /\ users' = [users EXCEPT ![r.user] = IssueTicket(users[r.user], passwordResetToken, now)]
    /\ Await(p, [r EXCEPT !.secret = resetToken, !.token = passwordResetToken], "mail")
    /\ UNCHANGED <<notes, counter, outbox, now>>

\* const resetURL = `${baseURL}/resetpassword/${passwordResetToken}`
ResetURL(resetToken, passwordResetToken) == passwordResetToken

\* forgotPassword: sendMail returns at once (its callback only logs the result of
\* the delivery), so the catch block is never entered and the answer is 200.
forgotPasswordMail(p) ==
    LET r == procs[p] IN
    /\ r.pc = "mail"
    /\ r.op = "forgotPassword"
    /\ outbox' = outbox \cup {Mail(r.email, ResetURL(r.secret, r.token))}
    /\ Reply(p, r, OK, "Password reset email sent!", r.user)
    /\ UNCHANGED <<users, notes, counter, now, secrets>>

\* transporter.sendMail(options, callback): the delivery fails and the callback
\* logs the error; nothing is thrown into the handler that called sendMail.
transportFails(m) ==
    /\ m \in outbox
    /\ m.state = "handed over"
    /\ outbox' = (outbox \ {m}) \cup {[m EXCEPT !.state = "failed"]}
    /\ UNCHANGED <<users, notes, counter, now, secrets, procs>>

\* User.findOne({ passwordResetToken, passwordResetAt: { $lt: date } })
UsersByTicket(passwordResetToken, date) ==
    {i \in UserIds : /\ users[i].passwordResetToken = passwordResetToken
                     /\ users[i].passwordResetAt # Null
                     /\ users[i].passwordResetAt < date}

\* resetDate.setMinutes(resetDate.getMinutes() + 60); date > resetDate
IsExpired(date, passwordResetAt) == date > passwordResetAt + ResetHorizonMinutes

\* resetPassword (PATCH /auth/resetpassword/:passwordResetToken): validation and
\* User.findOne.  user.passwordResetAt is read before user is tested for null.
resetPassword(p, passwordResetToken, password) ==
    LET r == [Idle EXCEPT !.op = "resetPassword", !.token = passwordResetToken,
                          !.password = password]
        user == FindOne(UsersByTicket(passwordResetToken, now))
    IN
    /\ procs[p].pc = "idle"
    /\ UNCHANGED <<users, notes, counter, outbox, now, secrets>>
    /\ IF passwordResetToken = NoToken \/ password = Missing
       THEN Reply(p, r, BAD_REQUEST, "Missing required data!", Null)
       ELSE IF user = Null
       THEN Throw(p, r, "TypeError")
       ELSE IF IsExpired(now, users[user].passwordResetAt)
       THEN Reply(p, r, BAD_REQUEST, "Invalid token or token has expired!", Null)
       ELSE Await(p, [r EXCEPT !.user = user], "update")

\* The update document { password: hashedPassword, passwordResetToken: null, passwordResetAt: null }.
ConsumeTicket(doc, hashedPassword) ==
    [doc EXCEPT !.password = hashedPassword, !.passwordResetToken = NoToken,
                !.passwordResetAt = Null]

\* resetPassword: bcrypt.hash and User.findOneAndUpdate by _id.
resetPasswordUpdate(p) ==
    LET r == procs[p] IN
    /\ r.pc = "update"
    /\ r.op = "resetPassword"
    /\ users' = [users EXCEPT ![r.user] = ConsumeTicket(users[r.user], BcryptHash(r.password))]
    /\ Reply(p, r, OK, "Password reset successfully!", r.user)
    /\ UNCHANGED <<notes, counter, outbox, now, secrets>>

\* The clock moves on.
Tick ==
    /\ now < MaxTicks * TickMinutes
    /\ now' = now + TickMinutes
    /\ UNCHANGED <<users, notes, counter, outbox, secrets, procs>>

(***************************************************************************)
(* login (POST /auth) and verifyJWT, the middleware of the routers of      *)
(* /account, /users and /notes.                                            *)
(***************************************************************************)
AccessTokenSecret == "ACCESS_TOKEN_SECRET"

\* expiresIn: "7d", in minutes.
SevenDays == 10080

UNAUTHORIZED == 401
FORBIDDEN == 403

\* jwt.sign(payload, key, { expiresIn: "7d" }) at the time iat.
JwtSign(UserInfo, key, iat) ==
    [ key |-> key, exp |-> iat + SevenDays, UserInfo |-> UserInfo ]

\* Mutant of JwtVerify: the payload is decoded and nothing is verified.
JwtVerifyDecodeOnly(token, key, date) == TRUE

\* jwt.verify(token, key): the signature and the expiry.
JwtVerify(token, key, date) == token.key = key /\ date < token.exp

\* obj[key] of JavaScript: undefined, a falsy value, when obj has no such key.
Prop(obj, key) == IF key \in DOMAIN obj THEN obj[key] ELSE Missing

\* Mutant of BcryptCompare: every password matches.
BcryptCompareAlways(password, hash) == TRUE

\* bcrypt.compare(password, hash)
BcryptCompare(password, hash) == hash = BcryptHash(password)

\* The paths of userSchema, those it declares select: false, and the
\* projection of a query that names no paths or excludes some.
UserSchemaPaths ==
    { "_id", "username", "fullname", "email", "password", "avatarUrl", "role", "active",
      "isDeleted", "deletedAt", "passwordResetToken", "passwordResetAt", "createdAt" }

UserSelectFalse == { "isDeleted", "deletedAt" }

Select(schemaPaths, selectFalse, excluded) == (schemaPaths \ selectFalse) \ excluded

\* res.status(status).json(body) with documents in the body.
ReplyDocs(p, r, status, msg, docs, paths) ==
    procs' = [procs EXCEPT ![p] = [r EXCEPT !.pc = "idle", !.resp =
                 [NoResponse EXCEPT !.status = status, !.msg = msg,
                                    !.docs = docs, !.paths = paths]]]

\* Mutant of UsersByExactUsername: the lookup with the isDeleted condition.
UsersByExactUsernameLive(username) ==
    {i \in UserIds : users[i].username = username /\ ~users[i].isDeleted}

\* User.findOne({ username })
UsersByExactUsername(username) == {i \in UserIds : users[i].username = username}

\* login: validation and User.findOne({ username }); the document read is kept.
login(p, username, password) ==
    LET r == [Idle EXCEPT !.op = "login", !.username = username, !.password = password]
        foundUser == FindOne(UsersByExactUsername(username))
    IN
    /\ procs[p].pc = "idle"
    /\ UNCHANGED <<users, notes, counter, outbox, now, secrets>>
    /\ IF username = Missing \/ password = Missing
       THEN Reply(p, r, BAD_REQUEST, "Missing username or password!", Null)
       ELSE IF foundUser = Null
       THEN Reply(p, r, UNAUTHORIZED, "Username not found!", Null)
       ELSE IF ~users[foundUser].active
       THEN Reply(p, r, UNAUTHORIZED, "Username not found!", Null)
       ELSE Await(p, [r EXCEPT !.user = foundUser,
                               !.username = users[foundUser].username,
                               !.role = users[foundUser].role,
                               !.hash = users[foundUser].password], "compare")

\* login: bcrypt.compare, jwt.sign and res.json({ user: foundUser, accessToken }).
loginCompare(p) ==
    LET r == procs[p]
        accessToken == JwtSign([ username |-> r.username, role |-> r.role, _id |-> r.user ],
                               AccessTokenSecret, now)
    IN
    /\ r.pc = "compare"
    /\ r.op = "login"
    /\ UNCHANGED <<users, notes, counter, outbox, now, secrets>>
    /\ IF ~BcryptCompare(r.password, r.hash)
       THEN Reply(p, r, UNAUTHORIZED, "Incorrect password!", Null)
       ELSE procs' = [procs EXCEPT ![p] = [r EXCEPT !.pc = "idle", !.resp =
                        [NoResponse EXCEPT !.status = DefaultStatusCode,
                                           !.msg = "Logged in successfully!",
                                           !.id = r.user,
                                           !.docs = <<r.user>>,
                                           !.paths = Select(UserSchemaPaths, UserSelectFalse, {}),
                                           !.accessToken = accessToken]]]

\* verifyJWT in front of the handler of route: the header, the token, and
\* next() with req.user and req.roles set from the decoded payload.
verifyJWT(p, authHeader, route) ==
    LET r == [Idle EXCEPT !.op = route, !.auth = authHeader]
        token == authHeader.token
    IN
    /\ procs[p].pc = "idle"
    /\ UNCHANGED <<users, notes, counter, outbox, now, secrets>>
    /\ IF authHeader.scheme # "Bearer"
       THEN Reply(p, r, UNAUTHORIZED, "Unauthorized!", Null)
       ELSE IF ~JwtVerify(token, AccessTokenSecret, now)
       THEN Reply(p, r, FORBIDDEN, "Forbidden!", Null)
       ELSE Await(p, [r EXCEPT !.reqUser = Prop(token.UserInfo, "username"),
                               !.reqRoles = Prop(token.UserInfo, "roles")], "next")

(***************************************************************************)
(* updateUser (PATCH /users/:id) and updateAccount (PATCH /account/:id):   *)
(* User.findById, the two lookups, and user.save().                        *)
(***************************************************************************)
\* The paths that the assignments of the handler mark modified on the
\* document that User.findById returned.
ModifiedUserPaths(doc, r, assigned) == {f \in assigned : doc[f] # r[f]}

\* The first await of both handlers: User.findById(id).
UpdateFindById(p, r, assigned) ==
    /\ Enters(p)
    /\ UNCHANGED <<users, notes, counter, outbox, now, secrets>>
    /\ IF r.id \notin UserIds
       THEN Reply(p, r, BAD_REQUEST, "User not found!", Null)
       ELSE Await(p, [r EXCEPT !.dirty = ModifiedUserPaths(users[r.id], r, assigned)],
                  "checkUsername")

\* Mutant of UpdateCheckUsername: any holder of the username is a conflict,
\* the account itself included.
UpdateCheckUsernameAnyHolder(p, op) ==
    /\ procs[p].pc = "checkUsername"
    /\ procs[p].op = op
    /\ UNCHANGED <<users, notes, counter, outbox, now, secrets>>
    /\ IF UsersByUsername(procs[p].username) # {}
       THEN Reply(p, procs[p], CONFLICT, "This username already exists!", Null)
       ELSE Await(p, procs[p], "checkEmail")

\* The username lookup; the account itself may keep its username.
UpdateCheckUsername(p, op) ==
    /\ procs[p].pc = "checkUsername"
    /\ procs[p].op = op
    /\ UNCHANGED <<users, notes, counter, outbox, now, secrets>>
    /\ IF FindOne(UsersByUsername(procs[p].username)) \notin {Null, procs[p].id}
       THEN Reply(p, procs[p], CONFLICT, "This username already exists!", Null)
       ELSE Await(p, procs[p], "checkEmail")

\* Mutant of UpdateCheckEmail: the handler goes on to save without the lookup.
UpdateSkipEmailLookup(p, op) ==
    /\ procs[p].pc = "checkEmail"
    /\ procs[p].op = op
    /\ UNCHANGED <<users, notes, counter, outbox, now, secrets>>
    /\ Await(p, procs[p], "save")

\* The email lookup; the account itself may keep its email.
UpdateCheckEmail(p, op) ==
    /\ procs[p].pc = "checkEmail"
    /\ procs[p].op = op
    /\ UNCHANGED <<users, notes, counter, outbox, now, secrets>>
    /\ IF FindOne(UsersByEmail(procs[p].email)) \notin {Null, procs[p].id}
       THEN Reply(p, procs[p], CONFLICT, "This email has already been used!", Null)
       ELSE Await(p, procs[p], "save")

\* Mutant of SaveUser: save() also writes the schema default of isDeleted,
\* a path that findById did not select.
SaveUserWithDefaults(doc, r, password) ==
    [f \in DOMAIN doc |->
        IF f = "isDeleted" THEN FALSE
        ELSE IF f \notin r.dirty THEN doc[f]
        ELSE IF f = "password" THEN password
        ELSE r[f]]

\* user.save() writes the modified paths of the document.
SaveUser(doc, r, password) ==
    [f \in DOMAIN doc |->
        IF f \notin r.dirty THEN doc[f]
        ELSE IF f = "password" THEN password
        ELSE r[f]]

updateUser(p, id, username, fullname, email, role, active) ==
    LET r == [Idle EXCEPT !.op = "updateUser", !.id = id, !.username = username,
                          !.fullname = fullname, !.email = email, !.role = role,
                          !.active = active]
    IN
    IF id = Null \/ username = Missing \/ fullname = Missing \/ email = Missing
       \/ role = Missing
    THEN /\ Enters(p)
         /\ UNCHANGED <<users, notes, counter, outbox, now, secrets>>
         /\ Reply(p, r, BAD_REQUEST, "Missing required data!", Null)
    ELSE UpdateFindById(p, r, {"username", "fullname", "email", "role", "active"})

updateUserCheckUsername(p) == UpdateCheckUsername(p, "updateUser")

updateUserCheckEmail(p) == UpdateCheckEmail(p, "updateUser")

\* updateUser: user.save(), the notification mail and the response.
updateUserSave(p) ==
    LET r == procs[p] IN
    /\ r.pc = "save"
    /\ r.op = "updateUser"
    /\ users' = [users EXCEPT ![r.id] = SaveUser(users[r.id], r, users[r.id].password)]
    /\ outbox' = outbox \cup {Mail(r.email, NoToken)}
    /\ Reply(p, r, OK, "updated", r.id)
    /\ UNCHANGED <<notes, counter, now, secrets>>

updateAccount(p, id, username, email, password) ==
    LET r == [Idle EXCEPT !.op = "updateAccount", !.id = id, !.username = username,
                          !.email = email, !.password = password]
    IN
    IF id = Null \/ username = Missing \/ email = Missing
    THEN /\ Enters(p)
         /\ UNCHANGED <<users, notes, counter, outbox, now, secrets>>
         /\ Reply(p, r, BAD_REQUEST, "Missing required data! Only password is optional!", Null)
    ELSE UpdateFindById(p, r, {"username", "email"})

updateAccountCheckUsername(p) == UpdateCheckUsername(p, "updateAccount")

updateAccountCheckEmail(p) == UpdateCheckEmail(p, "updateAccount")

\* updateAccount: bcrypt.hash of a given password, user.save() and the response.
updateAccountSave(p) ==
    LET r == procs[p]
        q == IF r.password # Missing THEN [r EXCEPT !.dirty = @ \cup {"password"}] ELSE r
    IN
    /\ r.pc = "save"
    /\ r.op = "updateAccount"
    /\ users' = [users EXCEPT ![r.id] = SaveUser(users[r.id], q, BcryptHash(r.password))]
    /\ Reply(p, r, OK, "updated", r.id)
    /\ UNCHANGED <<notes, counter, outbox, now, secrets>>

\* updateProfile (PATCH /account/profile): validation and User.findById(id).
updateProfile(p, id, fullname, avatarUrl) ==
    LET r == [Idle EXCEPT !.op = "updateProfile", !.id = id, !.fullname = fullname,
                          !.avatarUrl = avatarUrl]
    IN
    /\ Enters(p)
    /\ UNCHANGED <<users, notes, counter, outbox, now, secrets>>
    /\ IF id = Null \/ fullname = Missing
       THEN Reply(p, r, BAD_REQUEST, "Missing required data!", Null)
       ELSE IF id \notin UserIds
       THEN Reply(p, r, BAD_REQUEST, "User not found!", Null)
       ELSE Await(p, [r EXCEPT !.dirty = ModifiedUserPaths(users[id], r,
                                                          {"fullname", "avatarUrl"})],
                  "save")

\* updateProfile: user.save() and the response.
updateProfileSave(p) ==
    LET r == procs[p] IN
    /\ r.pc = "save"
    /\ r.op = "updateProfile"
    /\ users' = [users EXCEPT ![r.id] = SaveUser(users[r.id], r, users[r.id].password)]
    /\ Reply(p, r, OK, "updated", r.id)
    /\ UNCHANGED <<notes, counter, outbox, now, secrets>>

(***************************************************************************)
(* The read endpoints.  A query parameter that is absent is Missing, 0 or  *)
(* "".                                                                     *)
(***************************************************************************)
\* parseInt(x) || fallback: NaN and 0 are falsy.
ParseIntOr(x, fallback) == IF x = 0 THEN fallback ELSE x

\* Mutant of Ceil: the division rounded down.
Floor(count, limit) == count \div limit

\* Math.ceil(count / limit) for a positive limit.
Ceil(count, limit) == (count + limit - 1) \div limit

\* { $regex: pattern, $options: "i" } for a pattern of plain letters: s has a
\* substring equal to the pattern ignoring letter case.
RegexI(pattern, s) ==
    \E i \in 0..(Len(s) - Len(pattern)) :
        \A j \in 1..Len(pattern) : ToLower(s[i + j]) = ToLower(pattern[j])

\* .sort({ createdAt: -1 }): newest first, documents of the same time in
\* insertion order.
RECURSIVE SortCreatedAtDesc(_, _)
SortCreatedAtDesc(S, createdAt) ==
    IF S = {} THEN <<>>
    ELSE LET first == CHOOSE x \in S : \A y \in S :
                          \/ createdAt[x] > createdAt[y]
                          \/ (createdAt[x] = createdAt[y] /\ x <= y)
         IN <<first>> \o SortCreatedAtDesc(S \ {first}, createdAt)

\* A find without a sort: the documents in insertion order.
RECURSIVE NaturalOrder(_)
NaturalOrder(S) == IF S = {} THEN <<>> ELSE <<Min(S)>> \o NaturalOrder(S \ {Min(S)})

\* .skip(offset).limit(limit)
SkipLimit(docs, offset, limit) == SubSeq(docs, offset + 1, Min({Len(docs), offset + limit}))

\* The paths of noteSchema (ticket is added by the plugin) and those it
\* declares select: false.
NoteSchemaPaths ==
    { "_id", "user", "title", "text", "status", "isDeleted", "ticket", "createdAt" }

NoteSelectFalse == { "isDeleted" }

\* getAllUsers (GET /users/all): User.find({ isDeleted: false }).select("-password")
getAllUsers(p) ==
    LET r == [Idle EXCEPT !.op = "getAllUsers"]
        found == NaturalOrder({i \in UserIds : ~users[i].isDeleted})
    IN
    /\ Enters(p)
    /\ UNCHANGED <<users, notes, counter, outbox, now, secrets>>
    /\ IF found = <<>>
       THEN Reply(p, r, BAD_REQUEST, "No users found!", Null)
       ELSE ReplyDocs(p, r, OK, "", found,
                      Select(UserSchemaPaths, UserSelectFalse, {"password"}))

\* The filterCriteria of getUsers.
UsersMatching(r) ==
    {i \in UserIds :
        /\ ~users[i].isDeleted
        /\ r.fullname # Missing => RegexI(r.fullname, users[i].fullname)
        /\ r.role # Missing => RegexI(r.role, users[i].role)
        /\ r.activeQuery # "" => (users[i].active <=> r.activeQuery = "true")}

\* getUsers (GET /users): the query and User.countDocuments(filterCriteria).
getUsers(p, page, limit, fullname, role, active) ==
    LET r == [Idle EXCEPT !.op = "getUsers", !.query = [ page |-> page, limit |-> limit ],
                          !.page = ParseIntOr(page, 1),
                          !.limit = ParseIntOr(limit, 10), !.fullname = fullname,
                          !.role = role, !.activeQuery = active]
    IN
    /\ Enters(p)
    /\ UNCHANGED <<users, notes, counter, outbox, now, secrets>>
    /\ Await(p, [r EXCEPT !.count = Cardinality(UsersMatching(r))], "find")

\* getUsers: User.find(filterCriteria).sort().skip().limit() and the response.
getUsersFind(p) ==
    LET r == procs[p]
        found == SkipLimit(SortCreatedAtDesc(UsersMatching(r), [i \in UserIds |-> users[i].createdAt]),
                           r.limit * (r.page - 1), r.limit)
    IN
    /\ r.pc = "find"
    /\ r.op = "getUsers"
    /\ UNCHANGED <<users, notes, counter, outbox, now, secrets>>
    /\ IF found = <<>>
       THEN Reply(p, r, BAD_REQUEST, "No users found!", Null)
       ELSE procs' = [procs EXCEPT ![p] = [r EXCEPT !.pc = "idle", !.resp =
                        [NoResponse EXCEPT !.status = OK, !.docs = found,
                                           !.paths = Select(UserSchemaPaths, UserSelectFalse, {}),
                                           !.count = r.count,
                                           !.totalPage = Ceil(r.count, r.limit)]]]

\* User.findById(req.params.id) and res.json({ user }).
FindUserById(p, r) ==
    /\ Enters(p)
    /\ UNCHANGED <<users, notes, counter, outbox, now, secrets>>
    /\ IF r.id \notin UserIds
       THEN Reply(p, r, BAD_REQUEST, "No user with id", Null)
       ELSE ReplyDocs(p, r, OK, "", <<r.id>>, Select(UserSchemaPaths, UserSelectFalse, {}))

\* getSingleUser (GET /users/:id)
getSingleUser(p, id) == FindUserById(p, [Idle EXCEPT !.op = "getSingleUser", !.id = id])

\* getSingleAccount (GET /account/:id)
getSingleAccount(p, id) == FindUserById(p, [Idle EXCEPT !.op = "getSingleAccount", !.id = id])

\* getAllNotes (GET /notes/all): Note.find(), with no condition at all.
getAllNotes(p) ==
    LET r == [Idle EXCEPT !.op = "getAllNotes"]
        found == NaturalOrder(NoteIds)
    IN
    /\ Enters(p)
    /\ UNCHANGED <<users, notes, counter, outbox, now, secrets>>
    /\ IF found = <<>>
       THEN Reply(p, r, BAD_REQUEST, "No notes found!", Null)
       ELSE Await(p, [r EXCEPT !.found = found], "join")

\* getAllNotes: User.findById(note.user) for every note; user.username of a
\* user that does not exist throws.
getAllNotesJoin(p) ==
    LET r == procs[p] IN
    /\ r.pc = "join"
    /\ r.op = "getAllNotes"
    /\ UNCHANGED <<users, notes, counter, outbox, now, secrets>>
    /\ IF \E k \in DOMAIN r.found : notes[r.found[k]].user \notin UserIds
       THEN Throw(p, r, "TypeError")
       ELSE ReplyDocs(p, r, OK, "", r.found,
                      Select(NoteSchemaPaths, NoteSelectFalse, {}) \cup {"username"})

\* Mutant of NotesMatching: the term matches the owner or the title.
NotesMatchingOwnerOrTitle(r) ==
    {i \in NoteIds :
        /\ ~notes[i].isDeleted
        /\ r.ticket # Null => notes[i].ticket = r.ticket
        /\ r.term # Missing =>
              (notes[i].user \in r.termUsers \/ RegexI(r.term, notes[i].title))
        /\ r.status # Missing => notes[i].status # r.status}

\* Mutant of NotesMatching: the status filter selects the given status.
NotesMatchingStatusEq(r) ==
    {i \in NoteIds :
        /\ ~notes[i].isDeleted
        /\ r.ticket # Null => notes[i].ticket = r.ticket
        /\ r.term # Missing =>
              IF r.termUsers # {} THEN notes[i].user \in r.termUsers
              ELSE RegexI(r.term, notes[i].title)
        /\ r.status # Missing => notes[i].status = r.status}

\* The filterCriteria of getNotes.
NotesMatching(r) ==
    {i \in NoteIds :
        /\ ~notes[i].isDeleted
        /\ r.ticket # Null => notes[i].ticket = r.ticket
        /\ r.term # Missing =>
              IF r.termUsers # {} THEN notes[i].user \in r.termUsers
              ELSE RegexI(r.term, notes[i].title)
        /\ r.status # Missing => notes[i].status # r.status}

\* getNotes (GET /notes): the query; with a term, User.find by fullname comes
\* first, without one Note.countDocuments(filterCriteria) does.
getNotes(p, page, limit, ticket, term, status) ==
    LET r == [Idle EXCEPT !.op = "getNotes", !.query = [ page |-> page, limit |-> limit ],
                          !.page = ParseIntOr(page, 1),
                          !.limit = ParseIntOr(limit, 10), !.ticket = ticket,
                          !.term = term, !.status = status]
    IN
    /\ Enters(p)
    /\ UNCHANGED <<users, notes, counter, outbox, now, secrets>>
    /\ IF term # Missing
       THEN Await(p, [r EXCEPT !.termUsers = {i \in UserIds : RegexI(term, users[i].fullname)}],
                  "count")
       ELSE Await(p, [r EXCEPT !.count = Cardinality(NotesMatching(r))], "find")

\* getNotes: Note.countDocuments(filterCriteria) after the lookup of the term.
getNotesCount(p) ==
    LET r == procs[p] IN
    /\ r.pc = "count"
    /\ r.op = "getNotes"
    /\ UNCHANGED <<users, notes, counter, outbox, now, secrets>>
    /\ Await(p, [r EXCEPT !.count = Cardinality(NotesMatching(r))], "find")

\* getNotes: Note.find(filterCriteria).sort().skip().limit().
getNotesFind(p) ==
    LET r == procs[p]
        found == SkipLimit(SortCreatedAtDesc(NotesMatching(r), [i \in NoteIds |-> notes[i].createdAt]),
                           r.limit * (r.page - 1), r.limit)
    IN
    /\ r.pc = "find"
    /\ r.op = "getNotes"
    /\ UNCHANGED <<users, notes, counter, outbox, now, secrets>>
    /\ IF found = <<>>
       THEN Reply(p, r, BAD_REQUEST, "No notes found!", Null)
       ELSE Await(p, [r EXCEPT !.found = found], "join")

\* The fields of a note that getNotes and getSingleNote put in the body.
NoteWithUserPaths ==
    { "_id", "title", "text", "username", "role", "user", "status", "createdAt", "ticket" }

\* getNotes: User.findById(note.user) for every note ("Unassigned" when there
\* is no such user) and the response.
getNotesJoin(p) ==
    LET r == procs[p] IN
    /\ r.pc = "join"
    /\ r.op = "getNotes"
    /\ UNCHANGED <<users, notes, counter, outbox, now, secrets>>
    /\ procs' = [procs EXCEPT ![p] = [r EXCEPT !.pc = "idle", !.resp =
                    [NoResponse EXCEPT !.status = OK, !.docs = r.found,
                                       !.paths = NoteWithUserPaths,
                                       !.count = r.count,
                                       !.totalPage = Ceil(r.count, r.limit)]]]

\* getSingleNote (GET /notes/:id): Note.findById(req.params.id).
getSingleNote(p, id) ==
    LET r == [Idle EXCEPT !.op = "getSingleNote", !.id = id] IN
    /\ Enters(p)
    /\ UNCHANGED <<users, notes, counter, outbox, now, secrets>>
    /\ IF id \notin NoteIds
       THEN Reply(p, r, BAD_REQUEST, "No note with id", Null)
       ELSE Await(p, [r EXCEPT !.found = <<id>>], "join")

\* getSingleNote: User.findById(note.user) and the response.
getSingleNoteJoin(p) ==
    LET r == procs[p] IN
    /\ r.pc = "join"
    /\ r.op = "getSingleNote"
    /\ UNCHANGED <<users, notes, counter, outbox, now, secrets>>
    /\ ReplyDocs(p, r, OK, "", r.found, NoteWithUserPaths)

(***************************************************************************)
(* Account creation under concurrent requests.                             *)
(***************************************************************************)
SignupNames == { <<"a">>, <<"A">>, <<"b">> }
SignupEmails == { <<"x">>, <<"y">> }

NextSignup ==
    \/ \E p \in Procs, u \in SignupNames \cup {Missing}, e \in SignupEmails :
          register(p, u, <<"n">>, e, <<"p">>)
    \/ \E p \in Procs : registerCheckEmail(p)
    \/ \E p \in Procs : registerCreate(p)
    \/ \E p \in Procs, u \in SignupNames \cup {Missing}, e \in SignupEmails :
          createUser(p, u, <<"n">>, e, <<"p">>)
    \/ \E p \in Procs : createUserCheckEmail(p)
    \/ \E p \in Procs : createUserCreate(p)

SpecSignup == Init /\ [][NextSignup]_vars

(***************************************************************************)
(* A store that already holds two accounts, as two register requests leave *)
(* it (SeedReachable below is reached under SpecSignup).                   *)
(***************************************************************************)
SeedUsers ==
    << NewUser(<<"a">>, <<"n">>, <<"x">>, BcryptHash(<<"p">>), Missing, TickMinutes),
       NewUser(<<"b">>, <<"n">>, <<"y">>, BcryptHash(<<"p">>), Missing, TickMinutes) >>

InitSeeded ==
    /\ users = SeedUsers
    /\ notes = <<>>
    /\ counter = StartSeq - 1
    /\ outbox = {}
    /\ now = TickMinutes
    /\ secrets = 0
    /\ procs = [p \in Procs |-> Idle]

SeedReachable == users = SeedUsers

(***************************************************************************)
(* Ticket numbers under concurrent createNote requests.                    *)
(***************************************************************************)
TicketTitles == { <<"f">>, <<"F">>, <<"d">>, <<"b">> }

NextTickets ==
    \/ \E p \in Procs, t \in TicketTitles \cup {Missing} :
          createNote(p, 1, t, <<"t">>, <<"O">>)
    \/ \E p \in Procs : createNoteTicket(p)
    \/ \E p \in Procs : createNoteInsert(p)

SpecTickets == Init /\ [][NextTickets]_vars

(***************************************************************************)
(* Notes and their owners: every connection deletes accounts, connection   *)
(* r2 also creates, reassigns and deletes notes.                           *)
(***************************************************************************)
OwnerTitles == { <<"f">>, <<"d">> }
OwnerIds == DOMAIN SeedUsers
DeleteIds == OwnerIds \cup {Len(SeedUsers) + 1}
TargetNotes == 1..MaxNotes

NextOwners ==
    \/ \E u \in OwnerIds, t \in OwnerTitles : createNote("r2", u, t, <<"t">>, <<"O">>)
    \/ createNoteTicket("r2")
    \/ createNoteInsert("r2")
    \/ \E n \in TargetNotes, u \in OwnerIds, t \in OwnerTitles :
          updateNote("r2", n, u, t, <<"t">>, <<"O">>)
    \/ updateNoteCheckTitle("r2")
    \/ updateNoteSave("r2")
    \/ updateNoteNotify("r2")
    \/ \E n \in TargetNotes : deleteNote("r2", n)
    \/ \E p \in Procs, u \in DeleteIds : deleteUser(p, u)
    \/ \E p \in Procs : deleteUserWrite(p)

SpecOwners == InitSeeded /\ [][NextOwners]_vars

(***************************************************************************)
(* Note titles: one connection, so that no two requests interleave.        *)
(***************************************************************************)
TitleTitles == { <<"f">>, <<"F">>, <<"d">> }

NextTitles ==
    \/ \E t \in TitleTitles \cup {Missing} : createNote("r2", 1, t, <<"t">>, <<"O">>)
    \/ createNoteTicket("r2")
    \/ createNoteInsert("r2")
    \/ \E n \in TargetNotes, t \in TitleTitles : updateNote("r2", n, 1, t, <<"t">>, <<"O">>)
    \/ updateNoteCheckTitle("r2")
    \/ updateNoteSave("r2")
    \/ updateNoteNotify("r2")
    \/ \E n \in TargetNotes : deleteNote("r2", n)

SpecTitles == InitSeeded /\ [][NextTitles]_vars

(***************************************************************************)
(* Accounts: one connection creates, updates and deletes accounts, so that *)
(* no two requests interleave.                                             *)
(***************************************************************************)
AccountNames == { <<"a">>, <<"b">> }
AccountEmails == { <<"x">>, <<"y">> }
AccountIds == 1..MaxUsers

NextAccounts ==
    \/ \E u \in AccountNames, e \in AccountEmails : register("r1", u, <<"n">>, e, <<"p">>)
    \/ registerCheckEmail("r1")
    \/ registerCreate("r1")
    \/ \E u \in AccountNames, e \in AccountEmails : createUser("r1", u, <<"n">>, e, <<"p">>)
    \/ createUserCheckEmail("r1")
    \/ createUserCreate("r1")
    \/ \E i \in AccountIds, u \in AccountNames, e \in AccountEmails :
          updateUser("r1", i, u, <<"n">>, e, <<"E">>, TRUE)
    \/ updateUserCheckUsername("r1")
    \/ updateUserCheckEmail("r1")
    \/ updateUserSave("r1")
    \/ \E i \in AccountIds, u \in AccountNames, e \in AccountEmails,
          w \in {Missing, <<"q">>} : updateAccount("r1", i, u, e, w)
    \/ updateAccountCheckUsername("r1")
    \/ updateAccountCheckEmail("r1")
    \/ updateAccountSave("r1")
    \/ \E i \in AccountIds : deleteUser("r1", i)
    \/ deleteUserWrite("r1")

SpecAccounts == Init /\ [][NextAccounts]_vars

(***************************************************************************)
(* Renames in a store that holds duplicates: two accounts as two register  *)
(* requests for a/x and A/x leave them when both lookups run before either *)
(* insert (RenameUsersReachable is reached under SpecSignup), and two      *)
(* notes as two such createNote requests for f and F leave them            *)
(* (RenameNotesReachable is reached under SpecTickets).  One connection    *)
(* updates accounts and notes.                                             *)
(***************************************************************************)
RenameUsers ==
    << NewUser(<<"a">>, <<"n">>, <<"x">>, BcryptHash(<<"p">>), Missing, TickMinutes),
       NewUser(<<"A">>, <<"n">>, <<"x">>, BcryptHash(<<"p">>), Missing, TickMinutes) >>

RenameNotes ==
    << NewNote(1, <<"f">>, <<"t">>, <<"O">>, StartSeq, TickMinutes),
       NewNote(1, <<"F">>, <<"t">>, <<"O">>, StartSeq + 1, TickMinutes) >>

RenameUsersReachable == users = RenameUsers

RenameNotesReachable == notes = RenameNotes

InitRenames ==
    /\ users = RenameUsers
    /\ notes = RenameNotes
    /\ counter = StartSeq + 1
    /\ outbox = {}
    /\ now = TickMinutes
    /\ secrets = 0
    /\ procs = [p \in Procs |-> Idle]

RenameNames == { <<"a">>, <<"A">>, <<"b">> }
RenameEmails == { <<"x">>, <<"y">> }
RenameTitles == { <<"f">>, <<"F">>, <<"d">> }
RenameIds == 1..2

NextRenames ==
    \/ \E i \in RenameIds, u \in RenameNames, e \in RenameEmails :
          updateUser("r1", i, u, <<"n">>, e, <<"E">>, TRUE)
    \/ updateUserCheckUsername("r1")
    \/ updateUserCheckEmail("r1")
    \/ updateUserSave("r1")
    \/ \E i \in RenameIds, u \in RenameNames, e \in RenameEmails :
          updateAccount("r1", i, u, e, Missing)
    \/ updateAccountCheckUsername("r1")
    \/ updateAccountCheckEmail("r1")
    \/ updateAccountSave("r1")
    \/ \E n \in RenameIds, t \in RenameTitles : updateNote("r1", n, 1, t, <<"t">>, <<"O">>)
    \/ updateNoteCheckTitle("r1")
    \/ updateNoteSave("r1")
    \/ updateNoteNotify("r1")

SpecRenames == InitRenames /\ [][NextRenames]_vars

(***************************************************************************)
(* The password reset flow: connection r1 asks for tickets, connection r2  *)
(* presents tokens; the second account has been soft-deleted.              *)
(***************************************************************************)
InitReset ==
    /\ users = [SeedUsers EXCEPT ![2].isDeleted = TRUE, ![2].deletedAt = TickMinutes]
    /\ notes = <<>>
    /\ counter = StartSeq - 1
    /\ outbox = {}
    /\ now = TickMinutes
    /\ secrets = 0
    /\ procs = [p \in Procs |-> Idle]

ResetEmails == { <<"x">>, <<"y">>, <<"z">> }
\* The tokens a client can present: the token of any reset link that was
\* mailed, and the first raw secret, which no mail carries.
PresentedTokens == {m.link : m \in outbox} \cup {RawSecret(1)}
NewPasswords == { <<"q">>, Missing }

NextReset ==
    \/ \E e \in ResetEmails : forgotPassword("r1", e)
    \/ forgotPasswordIssue("r1")
    \/ forgotPasswordMail("r1")
    \/ \E m \in outbox : transportFails(m)
    \/ \E t \in PresentedTokens, w \in NewPasswords : resetPassword("r2", t, w)
    \/ resetPasswordUpdate("r2")
    \/ Tick

SpecReset == InitReset /\ [][NextReset]_vars

(***************************************************************************)
(* Authentication: connection r1 logs in, connection r2 sends requests to  *)
(* the routers behind verifyJWT with any header it can build; the second   *)
(* account has been deactivated by an updateUser.                          *)
(***************************************************************************)
InitAuth ==
    /\ users = [SeedUsers EXCEPT ![2].active = FALSE]
    /\ notes = <<>>
    /\ counter = StartSeq - 1
    /\ outbox = {}
    /\ now = TickMinutes
    /\ secrets = 0
    /\ procs = [p \in Procs |-> Idle]

LoginNames == { <<"a">>, <<"b">>, <<"z">> }
LoginPasswords == { <<"p">>, <<"q">> }
AuthRoles == { <<"E">>, <<"A">> }

\* The tokens that login has handed out.
IssuedTokens == {procs[p].resp.accessToken : p \in Procs} \ {NoAccessToken}

\* A token that login handed out seven days before the first state.
StaleToken ==
    JwtSign([ username |-> <<"a">>, role |-> <<"E">>, _id |-> 1 ],
            AccessTokenSecret, TickMinutes - SevenDays)

\* A token with the payload of t, signed with another key.
Forged(t) == [t EXCEPT !.key = "forged"]

PresentedHeaders ==
    {NoHeader} \cup
    { [ scheme |-> h, token |-> t ] :
        h \in {"bearer", "Bearer"},
        t \in IssuedTokens \cup {Forged(t) : t \in IssuedTokens} \cup {StaleToken} }

AuthRoutes == { "getSingleAccount", "updateUser", "createNote", "deleteNote" }

\* verifyJWT called next() for the handler of route.
CalledNext(p, route) == procs[p].pc = "next" /\ procs[p].op = route

NextAuth ==
    \/ \E u \in LoginNames \cup {Missing}, w \in LoginPasswords : login("r1", u, w)
    \/ loginCompare("r1")
    \/ \E h \in PresentedHeaders, route \in AuthRoutes : verifyJWT("r2", h, route)
    \/ CalledNext("r2", "getSingleAccount") /\ \E u \in DeleteIds : getSingleAccount("r2", u)
    \/ CalledNext("r2", "updateUser") /\ \E g \in AuthRoles, a \in BOOLEAN :
          updateUser("r2", 1, users[1].username, users[1].fullname, users[1].email, g, a)
    \/ updateUserCheckUsername("r2")
    \/ updateUserCheckEmail("r2")
    \/ updateUserSave("r2")
    \/ CalledNext("r2", "createNote") /\ createNote("r2", 1, <<"f">>, <<"t">>, <<"O">>)
    \/ createNoteTicket("r2")
    \/ createNoteInsert("r2")
    \/ CalledNext("r2", "deleteNote") /\ \E n \in TargetNotes : deleteNote("r2", n)

SpecAuth == InitAuth /\ [][NextAuth]_vars

(***************************************************************************)
(* Reads next to soft deletes: connection r1 reads, connection r2 creates  *)
(* and soft-deletes notes and soft-deletes accounts.                       *)
(***************************************************************************)
ReadTerms == { Missing, <<"f">> }
\* The owners given to createNote: an account, and an id that no account has.
ReadOwners == { 1, Len(SeedUsers) + 1 }

NextReads ==
    \/ getAllUsers("r1")
    \/ getUsers("r1", 0, 0, Missing, Missing, "")
    \/ getUsersFind("r1")
    \/ \E u \in DeleteIds : getSingleUser("r1", u)
    \/ \E u \in DeleteIds : getSingleAccount("r1", u)
    \/ getAllNotes("r1")
    \/ getAllNotesJoin("r1")
    \/ \E t \in ReadTerms : getNotes("r1", 0, 0, Null, t, Missing)
    \/ getNotesCount("r1")
    \/ getNotesFind("r1")
    \/ getNotesJoin("r1")
    \/ \E n \in TargetNotes : getSingleNote("r1", n)
    \/ getSingleNoteJoin("r1")
    \/ \E u \in ReadOwners, t \in OwnerTitles : createNote("r2", u, t, <<"t">>, <<"O">>)
    \/ createNoteTicket("r2")
    \/ createNoteInsert("r2")
    \/ \E n \in TargetNotes : deleteNote("r2", n)
    \/ \E u \in DeleteIds : deleteUser("r2", u)
    \/ deleteUserWrite("r2")

SpecReads == InitSeeded /\ [][NextReads]_vars

(***************************************************************************)
(* Pages: one connection creates and deletes notes while time passes, and  *)
(* lists accounts and notes page by page.                                  *)
(***************************************************************************)
PageTitles == { <<"f">>, <<"d">>, <<"f", "d">> }
PageNumbers == 0..2
PageLimits == 0..2

NextPages ==
    \/ \E t \in PageTitles : createNote("r1", 1, t, <<"t">>, <<"O">>)
    \/ createNoteTicket("r1")
    \/ createNoteInsert("r1")
    \/ \E n \in TargetNotes : deleteNote("r1", n)
    \/ \E page \in PageNumbers, limit \in PageLimits :
          getUsers("r1", page, limit, Missing, Missing, "")
    \/ getUsersFind("r1")
    \/ \E page \in PageNumbers, limit \in PageLimits :
          getNotes("r1", page, limit, Null, Missing, Missing)
    \/ getNotesFind("r1")
    \/ getNotesJoin("r1")
    \/ Tick

SpecPages == InitSeeded /\ [][NextPages]_vars

(***************************************************************************)
(* Filters: one connection creates and deletes notes and lists them by     *)
(* term, status and ticket.  The accounts are called "n"; account 3 does   *)
(* not exist.                                                              *)
(***************************************************************************)
FilterTitles == { <<"f">>, <<"n">>, <<"F", "d">> }
FilterTerms == { Missing, <<"f">>, <<"N">> }
FilterStatuses == { <<"O">>, <<"C">> }
FilterTickets == { Null, StartSeq }

NextFilters ==
    \/ \E u \in ReadOwners, t \in FilterTitles, s \in FilterStatuses :
          createNote("r1", u, t, <<"t">>, s)
    \/ createNoteTicket("r1")
    \/ createNoteInsert("r1")
    \/ \E n \in TargetNotes : deleteNote("r1", n)
    \/ \E k \in FilterTickets, t \in FilterTerms, s \in {Missing, <<"O">>} :
          getNotes("r1", 0, 0, k, t, s)
    \/ getNotesCount("r1")
    \/ getNotesFind("r1")
    \/ getNotesJoin("r1")

SpecFilters == InitSeeded /\ [][NextFilters]_vars

(***************************************************************************)
(* Lifecycle: connection r1 updates accounts and notes while connection r2 *)
(* creates notes and deletes notes and accounts.                           *)
(***************************************************************************)
LifecycleNames == { <<"a">>, <<"c">> }

NextLifecycle ==
    \/ \E u \in LifecycleNames : updateUser("r1", 1, u, <<"n">>, <<"x">>, <<"E">>, TRUE)
    \/ updateUserCheckUsername("r1")
    \/ updateUserCheckEmail("r1")
    \/ updateUserSave("r1")
    \/ \E n \in TargetNotes, t \in OwnerTitles : updateNote("r1", n, 2, t, <<"t">>, <<"O">>)
    \/ updateNoteCheckTitle("r1")
    \/ updateNoteSave("r1")
    \/ updateNoteNotify("r1")
    \/ \E t \in OwnerTitles : createNote("r2", 1, t, <<"t">>, <<"O">>)
    \/ createNoteTicket("r2")
    \/ createNoteInsert("r2")
    \/ \E n \in TargetNotes : deleteNote("r2", n)
    \/ deleteUser("r2", 1)
    \/ deleteUserWrite("r2")

SpecLifecycle == InitSeeded /\ [][NextLifecycle]_vars

(***************************************************************************)
(* Rejections: one connection sends every writing request, with bodies     *)
(* that lack a field, ids that nothing has, and values that are taken.     *)
(***************************************************************************)
NextRejections ==
    \/ \E u \in AccountNames \cup {Missing} : register("r1", u, <<"n">>, <<"x">>, <<"p">>)
    \/ registerCheckEmail("r1")
    \/ registerCreate("r1")
    \/ \E u \in AccountNames : createUser("r1", u, <<"n">>, <<"y">>, <<"p">>)
    \/ createUserCheckEmail("r1")
    \/ createUserCreate("r1")
    \/ \E i \in {1, MaxUsers + 1}, u \in AccountNames :
          updateUser("r1", i, u, <<"n">>, <<"x">>, <<"E">>, TRUE)
    \/ updateUserCheckUsername("r1")
    \/ updateUserCheckEmail("r1")
    \/ updateUserSave("r1")
    \/ \E u \in AccountNames : updateAccount("r1", 2, u, <<"x">>, Missing)
    \/ updateAccountCheckUsername("r1")
    \/ updateAccountCheckEmail("r1")
    \/ updateAccountSave("r1")
    \/ \E i \in {1, MaxUsers + 1}, n \in {Missing, <<"m">>} : updateProfile("r1", i, n, Missing)
    \/ updateProfileSave("r1")
    \/ \E t \in {Missing, <<"f">>, <<"F">>} : createNote("r1", 1, t, <<"t">>, <<"O">>)
    \/ createNoteTicket("r1")
    \/ createNoteInsert("r1")
    \/ \E n \in {1, 2}, t \in OwnerTitles : updateNote("r1", n, 1, t, <<"t">>, <<"O">>)
    \/ updateNoteCheckTitle("r1")
    \/ updateNoteSave("r1")
    \/ updateNoteNotify("r1")
    \/ \E i \in {1, MaxUsers + 1} : deleteUser("r1", i)
    \/ deleteUserWrite("r1")
    \/ \E n \in {1, MaxNotes + 1} : deleteNote("r1", n)

SpecRejections == Init /\ [][NextRejections]_vars

(***************************************************************************)
(* Reassignment: one connection creates notes and updates them, giving     *)
(* them to an account or to an id that no account has.                     *)
(***************************************************************************)
NextReassign ==
    \/ \E t \in OwnerTitles : createNote("r1", 1, t, <<"t">>, <<"O">>)
    \/ createNoteTicket("r1")
    \/ createNoteInsert("r1")
    \/ \E n \in TargetNotes, u \in ReadOwners, t \in OwnerTitles, s \in FilterStatuses :
          updateNote("r1", n, u, t, <<"t">>, s)
    \/ updateNoteCheckTitle("r1")
    \/ updateNoteSave("r1")
    \/ updateNoteNotify("r1")

SpecReassign == InitSeeded /\ [][NextReassign]_vars

(***************************************************************************)
(* Sessions: connection r1 logs in while connection r2 deletes accounts    *)
(* and time passes.  The second account is inactive.                       *)
(***************************************************************************)
NextSessions ==
    \/ \E u \in LoginNames \cup {Missing}, w \in LoginPasswords : login("r1", u, w)
    \/ loginCompare("r1")
    \/ \E u \in OwnerIds : deleteUser("r2", u)
    \/ deleteUserWrite("r2")
    \/ Tick

SpecSessions == InitAuth /\ [][NextSessions]_vars

(***************************************************************************)
(* Properties.                                                             *)
(***************************************************************************)
Fold(s) == [i \in 1..Len(s) |-> ToLower(s[i])]

\* A username that differs from the other only in letter case.
CaseVariant(s, t) == s # t /\ Fold(s) = Fold(t)

IsSignup(r) == r.op \in {"register", "createUser"}

Complete(r) ==
    r.username # Missing /\ r.fullname # Missing /\ r.email # Missing /\ r.password # Missing

\* The connection p starts a new request in this step.
Starts(p) == procs[p].pc = "idle" /\ procs'[p] # procs[p]

\* C2 as stated: in no interleaving of register and createUser requests are
\* two accounts stored whose usernames differ only in letter case.
C2_NoCaseVariantsStored ==
    \A i, j \in UserIds : ~CaseVariant(users[i].username, users[j].username)

\* C2, amended: a register or createUser request with all required fields
\* whose username lookup runs while an account with a username equal up to
\* letter case is stored is answered 409 and stores nothing.
C2_LookupAfterStoreConflicts ==
    [][\A p \in Procs :
          ( /\ Starts(p)
            /\ IsSignup(procs'[p])
            /\ Complete(procs'[p])
            /\ \E i \in UserIds : Fold(users[i].username) = Fold(procs'[p].username) )
          => ( /\ procs'[p].pc = "idle"
               /\ procs'[p].resp.status = CONFLICT
               /\ users' = users )]_vars

\* A request for a case variant of a stored username was answered 409.
C2_Witness ==
    \E p \in Procs, i \in UserIds :
        /\ IsSignup(procs[p])
        /\ procs[p].pc = "idle"
        /\ CaseVariant(users[i].username, procs[p].username)
        /\ procs[p].resp.status = CONFLICT
        /\ procs[p].resp.msg = "This username already exists!"

(***************************************************************************)
(* C1: ticket numbers.                                                     *)
(***************************************************************************)
StoredTickets == {notes[i].ticket : i \in NoteIds}

\* The tickets handed out so far: those of the stored notes and those of the
\* createNote requests that hold one and have not inserted their note yet.
AssignedTickets ==
    StoredTickets \cup {procs[p].ticket : p \in {q \in Procs : procs[q].pc = "insert"}}

C1_State ==
    /\ \A i, j \in NoteIds : i # j => notes[i].ticket # notes[j].ticket
    /\ AssignedTickets = StartSeq..counter
    /\ (\A p \in Procs : procs[p].pc = "idle")
          => StoredTickets = StartSeq..(StartSeq + Len(notes) - 1)

C1_Step ==
    counter' # counter =>
        /\ \A t \in AssignedTickets : counter' > t
        /\ counter' \in AssignedTickets'
        /\ (AssignedTickets = {} => counter' = 500)

\* C1: the notes created by any interleaving of createNote requests carry
\* pairwise distinct tickets, every ticket is greater than all tickets
\* assigned before it, the first one is 500, and the tickets of N created
\* notes are exactly 500 .. 500+N-1.
C1_TicketsDistinctIncreasingGapless == []C1_State /\ [][C1_Step]_vars

\* Two interleaved createNote requests stored their notes in the reverse
\* order of their tickets.
C1_Witness ==
    /\ Len(notes) >= 2
    /\ notes[1].ticket > notes[2].ticket
    /\ \A p \in Procs : procs[p].pc = "idle" /\ procs[p].resp.status = CREATED

(***************************************************************************)
(* C3: the referential guard of deleteUser.                                *)
(***************************************************************************)
OwnsLiveNote(u) == \E i \in NoteIds : notes[i].user = u /\ ~notes[i].isDeleted

Refusal == "Cannot delete users with assigned notes!"

\* C3: a deleteUser request whose lookup finds a non-deleted note owned by
\* the account is answered 400 and changes no account; when no such note is
\* left the request goes on, and its write marks the stored account deleted
\* and answers 200.
C3_DeleteUserGuard ==
    [][\A p \in Procs :
          /\ (Starts(p) /\ procs'[p].op = "deleteUser" /\ OwnsLiveNote(procs'[p].id))
                => ( /\ procs'[p].pc = "idle"
                     /\ procs'[p].resp.status = 400
                     /\ procs'[p].resp.msg = Refusal
                     /\ users' = users )
          /\ (Starts(p) /\ procs'[p].op = "deleteUser" /\ ~OwnsLiveNote(procs'[p].id))
                => procs'[p].pc = "softDelete"
          /\ (procs[p].pc = "softDelete" /\ procs'[p].pc = "idle" /\ procs[p].id \in UserIds)
                => ( /\ users'[procs[p].id].isDeleted
                     /\ procs'[p].resp.status = 200 )]_vars

\* deleteUser was refused for an account that owned a note; after the note
\* was soft-deleted or reassigned, deleteUser on the same account succeeded.
C3_Witness ==
    \E p, q \in Procs :
        /\ procs[p].op = "deleteUser" /\ procs[p].pc = "idle"
        /\ procs[p].resp.status = 400 /\ procs[p].resp.msg = Refusal
        /\ procs[q].op = "deleteUser" /\ procs[q].pc = "idle"
        /\ procs[q].id = procs[p].id
        /\ procs[q].resp.status = 200
        /\ users[procs[q].id].isDeleted
        /\ ~OwnsLiveNote(procs[q].id)

(***************************************************************************)
(* C4..C10: the password reset flow.                                       *)
(***************************************************************************)
Pending(u) == users[u].passwordResetToken # NoToken

\* Minutes since the ticket of account u was issued.
Elapsed(u) == now - users[u].passwordResetAt

\* Connection p starts a resetPassword request that carries a new password.
Presents(p) ==
    /\ Starts(p)
    /\ procs'[p].op = "resetPassword"
    /\ procs'[p].token # NoToken
    /\ procs'[p].password # Missing

\* The accounts whose stored ticket the presented token matches.
Holders(token) == {u \in UserIds : users[u].passwordResetToken = token}

Invalid == "Invalid token or token has expired!"
Success == "Password reset successfully!"

\* C4 as stated: the secret of a pending ticket, presented with a new
\* password after the issuance and less than 60 minutes after it, is
\* accepted, and the request goes on to replace the password.
C4_SecretAcceptedWithinHorizon ==
    [][\A p \in Procs :
          (Presents(p) /\ \E u \in Holders(<<"sha256", procs'[p].token>>) :
                              Elapsed(u) > 0 /\ Elapsed(u) < 60)
             => procs'[p].pc = "update"]_vars

\* C5 as stated: the correct secret presented more than 60 minutes after the
\* issuance of its ticket is answered 400 and changes no account.
C5_ExpiredSecretAnswered400 ==
    [][\A p \in Procs :
          (Presents(p) /\ \E u \in Holders(<<"sha256", procs'[p].token>>) :
                              Elapsed(u) > 60)
             => ( /\ procs'[p].pc = "idle"
                  /\ procs'[p].resp.status = 400
                  /\ users' = users )]_vars

\* C6 as stated: a token that matches no stored passwordResetToken is
\* answered 400 with the invalid-token message and changes no account.
C6_UnknownTokenAnswered400 ==
    [][\A p \in Procs :
          (Presents(p) /\ Holders(procs'[p].token) = {})
             => ( /\ procs'[p].pc = "idle"
                  /\ procs'[p].resp.status = 400
                  /\ procs'[p].resp.msg = Invalid
                  /\ users' = users )]_vars

\* The reset mails among the mails handed to the transporter.
ResetMails == {m \in outbox : m.link # NoToken}

\* C7 as stated: the reset link carries the raw secret, never the stored
\* value, and the stored value is the hash of the secret in the link.
C7_LinkCarriesRawSecret ==
    \A m \in ResetMails :
        /\ m.link[1] = "raw"
        /\ \A u \in UserIds : users[u].passwordResetToken # m.link

\* C8 as stated: no account has a ticket pending whose reset mail failed.
C8_FailedDeliveryRolledBack ==
    \A m \in ResetMails : \A u \in UserIds :
        (m.state = "failed" /\ users[u].email = m.to)
           => users[u].passwordResetToken \notin {m.link, <<"sha256", m.link>>}

\* C9 as stated: resetPassword accepts only the newest secret of an account,
\* the one whose hash the account stores at that moment.
C9_OnlyNewestSecretAccepted ==
    [][\A p \in Procs :
          (Presents(p) /\ procs'[p].pc = "update")
             => users[procs'[p].user].passwordResetToken
                   = <<"sha256", procs'[p].token>>]_vars

\* C10 as stated: forgotPassword for an email that belongs to no account that
\* is not soft-deleted is rejected and stores no ticket.
C10_OnlyLiveAccounts ==
    [][\A p \in Procs :
          ( /\ Starts(p)
            /\ procs'[p].op = "forgotPassword"
            /\ ~\E u \in UserIds : users[u].email = procs'[p].email /\ ~users[u].isDeleted )
          => ( /\ procs'[p].pc = "idle"
               /\ procs'[p].resp.status = 400 )]_vars

(***************************************************************************)
(* What resetPassword does guarantee, stated for the value it compares:    *)
(* the stored passwordResetToken, which is also what the reset link holds. *)
(***************************************************************************)
\* A stored token presented after the issuance and less than 60 minutes
\* after it is accepted; the update stores the hash of the new password and
\* sets passwordResetToken and passwordResetAt to null; a token that no
\* account holds changes nothing.
StoredTokenConsumesTicket ==
    [][\A p \in Procs :
          /\ (Presents(p) /\ \E u \in Holders(procs'[p].token) :
                                 Elapsed(u) > 0 /\ Elapsed(u) < 60)
                => ( /\ procs'[p].pc = "update"
                     /\ procs'[p].user \in Holders(procs'[p].token) )
          /\ (procs[p].op = "resetPassword" /\ procs[p].pc = "update" /\ procs'[p].pc = "idle")
                => ( /\ users'[procs[p].user].password = <<"bcrypt", procs[p].password>>
                     /\ users'[procs[p].user].passwordResetToken = <<>>
                     /\ users'[procs[p].user].passwordResetAt = 0
                     /\ \A v \in UserIds \ {procs[p].user} : users'[v] = users[v]
                     /\ procs'[p].resp.status = 200
                     /\ procs'[p].resp.msg = Success )
          /\ (Presents(p) /\ Holders(procs'[p].token) = {})
                => ( /\ users' = users
                     /\ procs'[p].pc = "idle"
                     /\ procs'[p].resp.msg # Success )]_vars

\* A stored token presented more than 60 minutes after its issuance is
\* answered 400 and changes no account; forgotPassword overwrites it.
ExpiredStoredTokenRejected ==
    [][\A p \in Procs :
          /\ (Presents(p) /\ \E u \in Holders(procs'[p].token) : Elapsed(u) > 60)
                => ( /\ procs'[p].pc = "idle"
                     /\ procs'[p].resp.status = 400
                     /\ procs'[p].resp.msg = Invalid
                     /\ users' = users )
          /\ (procs[p].op = "forgotPassword" /\ procs[p].pc = "issue" /\ procs'[p].pc = "mail")
                => ( /\ users'[procs[p].user].passwordResetToken = procs'[p].token
                     /\ procs'[p].token # NoToken
                     /\ \A u \in UserIds : users[u].passwordResetToken # procs'[p].token
                     /\ \A m \in outbox : m.link # procs'[p].token
                     /\ users'[procs[p].user].passwordResetAt = now )]_vars

(***************************************************************************)
(* C11..C13: verifyJWT and login.                                          *)
(***************************************************************************)
\* Connection p sends a request to a route behind verifyJWT.
Requests(p) == Starts(p) /\ procs'[p].op \in AuthRoutes

StoreUnchanged == users' = users /\ notes' = notes /\ counter' = counter

\* The header carries a token with a good signature that has not expired.
GoodBearer(h) ==
    h.scheme = "Bearer" /\ h.token.key = "ACCESS_TOKEN_SECRET" /\ now < h.token.exp

C11_Rejections ==
    \A p \in Procs :
        /\ (Requests(p) /\ procs'[p].auth.scheme # "Bearer")
              => ( /\ procs'[p].pc = "idle"
                   /\ procs'[p].resp.status = 401
                   /\ StoreUnchanged )
        /\ (Requests(p) /\ procs'[p].auth.scheme = "Bearer" /\ ~GoodBearer(procs'[p].auth))
              => ( /\ procs'[p].pc = "idle"
                   /\ procs'[p].resp.status = 403
                   /\ StoreUnchanged )

\* C11: a request to a route behind verifyJWT with no Authorization header,
\* or one that does not start with "Bearer ", is answered 401; one whose
\* Bearer token fails the signature or the expiry check is answered 403; in
\* both cases nothing is stored, and a handler is only ever entered with a
\* Bearer token that passed both checks.
C11_VerifyJWTGuardsRoutes ==
    /\ [](\A p \in Procs : procs[p].pc = "next" => GoodBearer(procs[p].auth))
    /\ [][C11_Rejections]_vars

\* A createNote request whose Bearer token has the payload of an issued
\* token and a wrong signature was answered 403, and no note was created.
C11_Witness ==
    /\ procs["r2"].pc = "idle"
    /\ procs["r2"].resp.status = 403
    /\ procs["r2"].auth.scheme = "Bearer"
    /\ procs["r2"].auth.token.key # "ACCESS_TOKEN_SECRET"
    /\ procs["r2"].auth.token.UserInfo._id = procs["r1"].resp.accessToken.UserInfo._id
    /\ procs["r2"].op = "createNote"
    /\ notes = <<>>

\* The accounts a login with this username can find.
Named(username) == {i \in UserIds : users[i].username = username}

\* C12: login with the username of an active account goes on to compare the
\* password, and with the matching password answers 200 with a token whose
\* id, username and role are those login read from the stored account; with
\* an unknown username, an inactive account or a password that does not
\* match it answers 401 and returns no token.
C12_LoginIssuesToken ==
    [][\A p \in Procs :
          /\ ( /\ Starts(p) /\ procs'[p].op = "login"
               /\ procs'[p].username # Missing /\ procs'[p].password # Missing )
                => IF \E i \in Named(procs'[p].username) : users[i].active
                   THEN /\ procs'[p].pc = "compare"
                        /\ procs'[p].user \in Named(procs'[p].username)
                        /\ procs'[p].role = users[procs'[p].user].role
                        /\ procs'[p].hash = users[procs'[p].user].password
                   ELSE /\ procs'[p].pc = "idle"
                        /\ procs'[p].resp.status = 401
                        /\ procs'[p].resp.accessToken = NoAccessToken
          /\ (procs[p].op = "login" /\ procs[p].pc = "compare" /\ procs'[p].pc = "idle")
                => IF procs[p].hash = <<"bcrypt", procs[p].password>>
                   THEN /\ procs'[p].resp.status = 200
                        /\ procs'[p].resp.accessToken.key = "ACCESS_TOKEN_SECRET"
                        /\ procs'[p].resp.accessToken.UserInfo
                              = [ username |-> procs[p].username, role |-> procs[p].role,
                                  _id |-> procs[p].user ]
                   ELSE /\ procs'[p].resp.status = 401
                        /\ procs'[p].resp.accessToken = NoAccessToken]_vars

\* A login returned a token that carries the stored id, username and role.
C12_Witness ==
    \E p \in Procs, i \in UserIds :
        /\ procs[p].op = "login" /\ procs[p].pc = "idle"
        /\ procs[p].resp.status = 200
        /\ users[i].active
        /\ procs[p].resp.accessToken.UserInfo
              = [ username |-> users[i].username, role |-> users[i].role, _id |-> i ]

\* C13 as stated: when verifyJWT calls next(), req.user and req.roles are the
\* username and the role of the payload of the token.
C13_ContextCarriesUsernameAndRole ==
    \A p \in Procs :
        procs[p].pc = "next"
           => ( /\ procs[p].reqUser = procs[p].auth.token.UserInfo.username
                /\ procs[p].reqRoles = procs[p].auth.token.UserInfo.role )

(***************************************************************************)
(* C14..C16: reads and soft deletes.                                       *)
(***************************************************************************)
UserReads == { "getAllUsers", "getUsers", "getSingleUser", "getSingleAccount" }

\* C14 as stated: no response of getAllUsers, getUsers, getSingleUser or
\* getSingleAccount carries the password field of an account.
C14_NoPasswordInReads ==
    \A p \in Procs :
        procs[p].op \in UserReads => "password" \notin procs[p].resp.paths

\* The step in which a list or search endpoint reads the collection it lists.
ListsUsers(p) ==
    \/ Starts(p) /\ procs'[p].op = "getAllUsers"
    \/ procs[p].op = "getUsers" /\ procs[p].pc = "find" /\ procs'[p].pc = "idle"

ListsNotes(p) ==
    \/ Starts(p) /\ procs'[p].op = "getAllNotes"
    \/ procs[p].op = "getNotes" /\ procs[p].pc = "find" /\ procs'[p].pc # "find"

\* C15 as stated: no list or search endpoint reads a soft-deleted account or
\* note into its result, and a lookup by id still finds one.
C15_SoftDeletedHiddenFromLists ==
    [][\A p \in Procs :
          /\ ListsUsers(p)
                => \A k \in DOMAIN procs'[p].resp.docs :
                      ~users[procs'[p].resp.docs[k]].isDeleted
          /\ ListsNotes(p)
                => \A k \in DOMAIN procs'[p].found :
                      ~notes[procs'[p].found[k]].isDeleted
          /\ ( /\ Starts(p)
               /\ procs'[p].op \in {"getSingleUser", "getSingleAccount"}
               /\ procs'[p].id \in UserIds )
                => procs'[p].resp.status = 200 /\ procs'[p].resp.docs = <<procs'[p].id>>
          /\ (Starts(p) /\ procs'[p].op = "getSingleNote" /\ procs'[p].id \in NoteIds)
                => procs'[p].found = <<procs'[p].id>>]_vars

\* A deleteUser or deleteNote request is answered 200 in this step.
Deleted(p, op) ==
    /\ procs'[p].op = op
    /\ procs'[p].pc = "idle"
    /\ procs'[p] # procs[p]
    /\ procs'[p].resp.status = 200

\* C16 as stated: a successful deleteUser or deleteNote leaves the stored
\* entity with isDeleted true and deletedAt equal to the time of the request
\* and removes nothing from the store.
C16_SoftDeleteSetsFlagAndTime ==
    [][\A p \in Procs :
          /\ Deleted(p, "deleteUser")
                => ( /\ users'[procs'[p].id].isDeleted
                     /\ users'[procs'[p].id].deletedAt = now
                     /\ Len(users') = Len(users) /\ Len(notes') = Len(notes) )
          /\ Deleted(p, "deleteNote")
                => ( /\ notes'[procs'[p].id].isDeleted
                     /\ "deletedAt" \in DOMAIN notes'[procs'[p].id]
                     /\ notes'[procs'[p].id].deletedAt = now
                     /\ Len(users') = Len(users) /\ Len(notes') = Len(notes) )]_vars

(***************************************************************************)
(* C17: the ticket of a note is fixed at creation.                         *)
(***************************************************************************)
\* C17: no step changes the ticket of a stored note or removes a note, and a
\* note that a createNote request adds carries a ticket that no stored note,
\* soft-deleted ones included, holds.
C17_TicketFixedAtCreation ==
    [][ /\ Len(notes') >= Len(notes)
        /\ \A i \in NoteIds : notes'[i].ticket = notes[i].ticket
        /\ \A i \in DOMAIN notes' \ NoteIds :
              \A j \in NoteIds : notes'[i].ticket # notes[j].ticket ]_vars

\* Connection r2, the only one that touches notes, was last answered 201 by
\* createNote after it had soft-deleted the first note: the deleted note
\* keeps ticket 500 and the new note carries 501.
C17_Witness ==
    /\ Len(notes) >= 2
    /\ procs["r2"].op = "createNote" /\ procs["r2"].pc = "idle"
    /\ procs["r2"].resp.status = CREATED
    /\ procs["r2"].resp.id = 2
    /\ notes[1].isDeleted /\ notes[1].ticket = StartSeq
    /\ notes[2].ticket = StartSeq + 1

(***************************************************************************)
(* C18: note titles.                                                       *)
(***************************************************************************)
LiveTitleTaken(title) ==
    \E i \in NoteIds : ~notes[i].isDeleted /\ Fold(notes[i].title) = Fold(title)

C18_Conflict ==
    \A p \in Procs :
        ( /\ Starts(p)
          /\ procs'[p].op = "createNote"
          /\ procs'[p].title # Missing
          /\ LiveTitleTaken(procs'[p].title) )
        => ( /\ procs'[p].pc = "idle"
             /\ procs'[p].resp.status = CONFLICT
             /\ notes' = notes
             /\ counter' = counter )

C18_LiveTitlesDistinct ==
    \A i, j \in NoteIds :
        (i # j /\ ~notes[i].isDeleted /\ ~notes[j].isDeleted)
            => Fold(notes[i].title) # Fold(notes[j].title)

\* C18: a createNote request whose title equals, ignoring letter case, the
\* title of a stored non-deleted note is answered 409, stores no note and
\* leaves the ticket counter alone; and when requests do not interleave, no
\* two non-deleted notes carry titles that are equal ignoring letter case.
C18_TitlesUniqueIgnoringCase == []C18_LiveTitlesDistinct /\ [][C18_Conflict]_vars

\* Two notes are stored, and the createNote request for a case variant of
\* the title of a non-deleted one was answered 409.
C18_Witness ==
    /\ Len(notes) >= 2
    /\ procs["r2"].op = "createNote" /\ procs["r2"].pc = "idle"
    /\ procs["r2"].resp.status = CONFLICT
    /\ \E i \in NoteIds : /\ ~notes[i].isDeleted
                           /\ CaseVariant(notes[i].title, procs["r2"].title)

(***************************************************************************)
(* C19 and C20: the uniqueness of usernames and emails.                    *)
(***************************************************************************)
\* C19: when register, createUser, updateUser and updateAccount requests do
\* not interleave, no two non-deleted accounts hold the same email.
C19_LiveEmailsDistinct ==
    \A i, j \in UserIds :
        (i # j /\ ~users[i].isDeleted /\ ~users[j].isDeleted)
            => users[i].email # users[j].email

\* Two non-deleted accounts are stored, and the request to give the second
\* one the email of the first was answered 409.
C19_Witness ==
    /\ Len(users) >= 2
    /\ \A i \in UserIds : ~users[i].isDeleted
    /\ procs["r1"].op \in {"updateUser", "updateAccount"} /\ procs["r1"].pc = "idle"
    /\ procs["r1"].id = 2
    /\ procs["r1"].email = users[1].email
    /\ procs["r1"].resp.status = CONFLICT
    /\ procs["r1"].resp.msg = "This email has already been used!"

\* The other non-deleted accounts that hold the username (up to letter case)
\* or the email of the request r.
LiveHolders(r) ==
    {i \in UserIds \ {r.id} :
        /\ ~users[i].isDeleted
        /\ (Fold(users[i].username) = Fold(r.username) \/ users[i].email = r.email)}

\* C20: a register, createUser, updateUser or updateAccount request is
\* answered 409 only when a non-deleted account (other than the one that is
\* updated) holds its username or its email; a value that only soft-deleted
\* accounts hold causes no conflict.
C20_OnlyLiveAccountsConflict ==
    [][\A p \in Procs :
          ( /\ procs'[p] # procs[p]
            /\ procs'[p].op \in {"register", "createUser", "updateUser", "updateAccount"}
            /\ procs'[p].pc = "idle"
            /\ procs'[p].resp.status = CONFLICT )
          => LiveHolders(procs'[p]) # {}]_vars

(***************************************************************************)
(* C21: the conflict check of the update handlers.                         *)
(***************************************************************************)
IsUserUpdate(r) == r.op \in {"updateUser", "updateAccount"}

OtherUsername(r) ==
    \E i \in UserIds \ {r.id} : Fold(users[i].username) = Fold(r.username)

OtherEmail(r) == \E i \in UserIds \ {r.id} : users[i].email = r.email

OtherTitle(r) == \E i \in NoteIds \ {r.id} : Fold(notes[i].title) = Fold(r.title)

Rejected(p) ==
    /\ procs'[p].pc = "idle"
    /\ procs'[p].resp.status = CONFLICT
    /\ users' = users
    /\ notes' = notes

\* The lookups of the request r match at most one stored entity each.
SingleHolder(r) ==
    /\ IsUserUpdate(r) =>
          /\ Cardinality({i \in UserIds : Fold(users[i].username) = Fold(r.username)}) <= 1
          /\ Cardinality({i \in UserIds : users[i].email = r.email}) <= 1
    /\ r.op = "updateNote" =>
          Cardinality({i \in NoteIds : Fold(notes[i].title) = Fold(r.title)}) <= 1

\* The step of a request that has passed validation and found its target:
\* each lookup rejects with 409 exactly when another entity holds the value,
\* and no later step of the request answers 409.
C21_Lookup(p) ==
    LET r == procs[p] IN
    /\ (IsUserUpdate(r) /\ r.pc = "checkUsername") => (Rejected(p) <=> OtherUsername(r))
    /\ (IsUserUpdate(r) /\ r.pc = "checkEmail") => (Rejected(p) <=> OtherEmail(r))
    /\ (r.op = "updateNote" /\ r.pc = "checkTitle") => (Rejected(p) <=> OtherTitle(r))
    /\ ((IsUserUpdate(r) \/ r.op = "updateNote") /\ r.pc \in {"save", "notify"})
          => procs'[p].resp.status # CONFLICT

Max(S) == CHOOSE x \in S : \A y \in S : x >= y

\* The page and the limit a query asks for: 1 and 10 when the parameter is
\* absent or not a number.
AskedPage(q) == IF q.page = 0 THEN 1 ELSE q.page

AskedLimit(q) == IF q.limit = 0 THEN 10 ELSE q.limit

\* The sequence d holds the members of F at the positions offset up to
\* offset + limit - 1 of F ordered by creation time descending; members of
\* the same creation time may come in any order.
IsWindow(d, F, createdAt, offset, limit) ==
    /\ Len(d) = Max({0, Min({limit, Cardinality(F) - offset})})
    /\ \A j, k \in DOMAIN d : j # k => d[j] # d[k]
    /\ \A k \in DOMAIN d :
          /\ d[k] \in F
          /\ Cardinality({y \in F : createdAt[y] > createdAt[d[k]]}) <= offset + k - 1
          /\ offset + k - 1
                <= Cardinality({y \in F \ {d[k]} : createdAt[y] >= createdAt[d[k]]})

IsCeiling(t, count, limit) == t * limit >= count /\ (t - 1) * limit < count

\* The response of connection p carries the asked page of the set F.
AnswersPage(p, F, createdAt) ==
    LET q == procs[p].query
        resp == procs'[p].resp
    IN
    /\ resp.status = OK
    /\ IsWindow(resp.docs, F, createdAt, (AskedPage(q) - 1) * AskedLimit(q), AskedLimit(q))
    /\ resp.count = Cardinality(F)
    /\ IsCeiling(resp.totalPage, resp.count, AskedLimit(q))

\* The response of connection p is the refusal of an empty page.
RefusesPage(p) ==
    LET resp == procs'[p].resp IN
    /\ resp.status = BAD_REQUEST
    /\ resp.docs = <<>>
    /\ resp.count = 0 /\ resp.totalPage = 0

\* Connection p receives the response of an unfiltered getUsers or getNotes.
Answered(p, op) ==
    /\ procs[p].op = op /\ procs[p].pc # "idle" /\ procs'[p].pc = "idle"
    /\ procs'[p].resp.isError = FALSE

LiveUsers == {i \in UserIds : ~users[i].isDeleted}

LiveNotes == {i \in NoteIds : ~notes[i].isDeleted}

UsersCreatedAt == [i \in UserIds |-> users[i].createdAt]

NotesCreatedAt == [i \in NoteIds |-> notes[i].createdAt]

\* C22 as stated: for every page and limit, getUsers and getNotes answer
\* with the entities at the positions (page-1)*limit .. (page-1)*limit+limit-1
\* of the filtered set ordered by creation time descending, with count and
\* totalPage = ceiling(count / limit); page defaults to 1 and limit to 10.
C22_EveryPageAnswered ==
    [][\A p \in Procs :
          /\ Answered(p, "getUsers") => AnswersPage(p, LiveUsers, UsersCreatedAt)
          /\ Answered(p, "getNotes") => AnswersPage(p, LiveNotes, NotesCreatedAt)]_vars

\* The asked page of the set F holds no entity.
EmptyPage(p, F) ==
    Cardinality(F) <= (AskedPage(procs[p].query) - 1) * AskedLimit(procs[p].query)

\* C22, amended: the same for a page that holds at least one entity; a page
\* that holds none is answered 400 without entities, count or totalPage.
C22_NonEmptyPageAnswered ==
    [][\A p \in Procs :
          /\ Answered(p, "getUsers") =>
                IF EmptyPage(p, LiveUsers) THEN RefusesPage(p)
                ELSE AnswersPage(p, LiveUsers, UsersCreatedAt)
          /\ Answered(p, "getNotes") =>
                IF EmptyPage(p, LiveNotes) THEN RefusesPage(p)
                ELSE AnswersPage(p, LiveNotes, NotesCreatedAt)]_vars

\* getNotes for page 2 with limit 2 was answered with the oldest of three
\* notes of different creation times, count 3 and totalPage 2.
C22_Witness ==
    LET r == procs["r1"] IN
    /\ r.op = "getNotes" /\ r.pc = "idle" /\ r.resp.status = OK
    /\ r.query = [ page |-> 2, limit |-> 2 ]
    /\ Len(notes) = 3 /\ LiveNotes = NoteIds
    /\ notes[1].createdAt < notes[2].createdAt
    /\ notes[2].createdAt < notes[3].createdAt
    /\ r.resp.docs = <<1>>
    /\ r.resp.count = 3 /\ r.resp.totalPage = 2

(***************************************************************************)
(* C23 and C24: the filters of getNotes.                                   *)
(***************************************************************************)
\* The string s contains the term, ignoring letter case.
Contains(s, term) ==
    \E i \in 1..Len(s), j \in 1..Len(s) : Fold(SubSeq(s, i, j)) = Fold(term)

NamedLike(term) == {u \in UserIds : Contains(users[u].fullname, term)}

\* The filtered set of a query with a term and no other filter.
TermSet(term) ==
    IF NamedLike(term) # {}
    THEN {i \in LiveNotes : notes[i].user \in NamedLike(term)}
    ELSE {i \in LiveNotes : Contains(notes[i].title, term)}

Range(s) == {s[k] : k \in DOMAIN s}

\* The response of connection p lists exactly the set F (on one page), or
\* refuses when F is empty.
Lists(p, F) ==
    LET resp == procs'[p].resp IN
    IF F = {} THEN resp.status = BAD_REQUEST /\ resp.docs = <<>>
    ELSE /\ resp.status = OK
         /\ Range(resp.docs) = F
         /\ resp.count = Cardinality(F)

\* C23: getNotes with a term and no other filter lists the non-deleted notes
\* owned by the accounts whose fullname contains the term when there is such
\* an account, whatever their titles, and otherwise the non-deleted notes
\* whose title contains the term.
C23_TermIsOwnerOrElseTitle ==
    [][\A p \in Procs :
          ( /\ Answered(p, "getNotes")
            /\ procs[p].term # Missing
            /\ procs[p].ticket = Null /\ procs[p].status = Missing )
          => Lists(p, TermSet(procs[p].term))]_vars

\* The term N, which the fullname of account 1 contains, was answered with
\* the note of account 1 and without the note of the unknown account 3,
\* whose title contains N.
C23_Witness ==
    LET r == procs["r1"] IN
    /\ r.op = "getNotes" /\ r.pc = "idle" /\ r.resp.status = OK
    /\ r.term = <<"N">> /\ r.ticket = Null /\ r.status = Missing
    /\ \E i, j \in LiveNotes :
          /\ notes[i].user = 1 /\ ~Contains(notes[i].title, r.term)
          /\ notes[j].user \notin UserIds /\ Contains(notes[j].title, r.term)
          /\ i \in Range(r.resp.docs)
          /\ j \notin Range(r.resp.docs)

\* The notes that pass the ticket and term filters of the request r.
PassOthers(r) ==
    {i \in LiveNotes :
        /\ r.ticket # Null => notes[i].ticket = r.ticket
        /\ r.term # Missing => i \in TermSet(r.term)}

C25_UnhandledExceptionAnswered500 ==
    \A p \in Procs :
        procs[p].resp.isError => procs[p].resp.status = INTERNAL_SERVER_ERROR

(***************************************************************************)
(* C26: soft deletion is permanent.                                        *)
(***************************************************************************)
\* C26: no step removes an account or a note, and an entity that is marked
\* deleted stays stored under its id and stays marked deleted.
C26_SoftDeleteIsPermanent ==
    [][ /\ Len(users') >= Len(users)
        /\ Len(notes') >= Len(notes)
        /\ \A i \in UserIds : users[i].isDeleted => users'[i].isDeleted
        /\ \A i \in NoteIds : notes[i].isDeleted => notes'[i].isDeleted ]_vars

\* An update and a deletion of account 1 were both answered 200, and so
\* were an update and a deletion of a note: the account and the note carry
\* the updated values and are marked deleted.
C26_Witness ==
    \E n \in NoteIds :
        /\ users[1].isDeleted /\ users[1].username = <<"c">>
        /\ notes[n].isDeleted /\ notes[n].user = 2
        /\ procs["r1"].op = "updateNote" /\ procs["r1"].pc = "idle"
        /\ procs["r1"].id = n /\ procs["r1"].resp.status = OK
        /\ "user" \in procs["r1"].dirty

(***************************************************************************)
(* C27: deleteUser against concurrent createNote and updateNote.           *)
(***************************************************************************)
\* C27: the step of a deleteUser request that marks an account deleted is
\* never taken while a stored non-deleted note references the account.
C27_DeleteUserCheckAndWriteAtomic ==
    [][\A p \in Procs :
          ( /\ procs[p].op = "deleteUser"
            /\ procs[p].pc = "softDelete"
            /\ procs'[p].pc = "idle"
            /\ procs[p].id \in UserIds
            /\ ~users[procs[p].id].isDeleted
            /\ users'[procs[p].id].isDeleted )
          => ~OwnsLiveNote(procs[p].id)]_vars

(***************************************************************************)
(* C28: a rejected request changes nothing.                                *)
(***************************************************************************)
WritingOps ==
    { "register", "createUser", "updateUser", "updateAccount", "updateProfile",
      "createNote", "updateNote", "deleteUser", "deleteNote" }

IsRejection(resp) == resp.status \in {BAD_REQUEST, CONFLICT} /\ ~resp.isError

\* The positions of a handler that follow a write of the request.
AfterWrite == { "insert", "notify" }

\* C28: the step that answers a writing request with 400 or 409 changes no
\* account, no note and not the ticket counter, and neither did an earlier
\* step of the request: a step of a request that changes the store is never
\* followed by a 400 or 409 of that request.
C28_RejectionChangesNothing ==
    [][\A p \in Procs :
          (procs'[p] # procs[p] /\ procs'[p].op \in WritingOps) =>
             /\ (procs'[p].pc = "idle" /\ IsRejection(procs'[p].resp))
                   => (StoreUnchanged /\ procs[p].pc \notin AfterWrite)
             /\ ~StoreUnchanged
                   => ( \/ procs'[p].pc \in AfterWrite
                        \/ procs'[p].pc = "idle" /\ ~IsRejection(procs'[p].resp) )]_vars

\* deleteUser was refused with 400 for an account that owns a note, and the
\* account is stored as it was created.
C28_Witness ==
    LET r == procs["r1"] IN
    /\ r.op = "deleteUser" /\ r.pc = "idle"
    /\ r.resp.status = BAD_REQUEST /\ r.resp.msg = Refusal
    /\ r.id \in UserIds /\ OwnsLiveNote(r.id)
    /\ ~users[r.id].isDeleted /\ users[r.id].deletedAt = Null

(***************************************************************************)
(* C29: updateNote that does not succeed.                                  *)
(***************************************************************************)
\* The stored note carries the values that the request r set out to change.
Modified(r) ==
    /\ r.dirty # {}
    /\ \A f \in r.dirty : notes[r.id][f] = r[f]

\* C29: an updateNote request that ends in anything but the 200 success
\* response has not modified the owner, title, text or status of the note.
C29_FailedUpdateNoteChangesNothing ==
    [][\A p \in Procs :
          ( /\ procs[p].op = "updateNote"
            /\ procs[p].pc # "idle"
            /\ procs'[p].pc = "idle"
            /\ (procs'[p].resp.isError \/ procs'[p].resp.status # OK) )
          => ~Modified(procs[p])]_vars

(***************************************************************************)
(* C30: login and soft-deleted accounts.                                   *)
(***************************************************************************)
\* The status that login answers for the accounts in store.
LoginStatus(store, username, password) ==
    LET found == {i \in DOMAIN store : store[i].username = username} IN
    IF username = Missing \/ password = Missing THEN BAD_REQUEST
    ELSE IF found = {} THEN UNAUTHORIZED
    ELSE IF \E i \in found : store[i].active /\ store[i].password = <<"bcrypt", password>>
    THEN OK
    ELSE UNAUTHORIZED

\* The stored accounts as they would be had none been soft-deleted.
NeverDeleted ==
    [i \in UserIds |-> [users[i] EXCEPT !.isDeleted = FALSE, !.deletedAt = Null]]

\* C30: a login is answered as it would be had no account been soft-deleted;
\* a 200 carries a token for the account, whether it is marked deleted or not.
C30_LoginIgnoresIsDeleted ==
    [][\A p \in Procs :
          (procs'[p] # procs[p] /\ procs'[p].op = "login" /\ procs'[p].pc = "idle")
          => /\ procs'[p].resp.status
                   = LoginStatus(NeverDeleted, procs'[p].username, procs'[p].password)
             /\ procs'[p].resp.status = OK
                   => /\ procs'[p].resp.accessToken.key = "ACCESS_TOKEN_SECRET"
                      /\ procs'[p].resp.accessToken.UserInfo._id = procs'[p].resp.id
                      /\ users[procs'[p].resp.id].username = procs'[p].username]_vars

\* Account 1 is active and was soft-deleted; a login that came later was
\* answered 200 with a token for account 1.
C30_Witness ==
    LET r == procs["r1"] IN
    /\ users[1].isDeleted /\ users[1].active
    /\ r.op = "login" /\ r.pc = "idle" /\ r.resp.status = OK
    /\ r.resp.accessToken.UserInfo._id = 1
    /\ r.resp.accessToken.exp - SevenDays > users[1].deletedAt
====
